---------------------------- MODULE Spec2Model ----------------------------
(***************************************************************************)
(* Model of the EnDAS ensemble Kalman filter/smoother engine:              *)
(*   - EnsembleKalmanSmoother (src/src/DA/Algorithm/EnsembleKalmanSmoother.cpp) *)
(*   - the EnKS / ESTKS variants (EnKSVariantEnKS.cpp, EnKSVariantESTKS.cpp)*)
(*   - MemoryArrayCache (src/src/Caching/MemoryArrayCache.cpp)             *)
(*   - GridDomainPartitioning / GridDomain (src/src/DA/GridDomain*.cpp)    *)
(*                                                                         *)
(* Real numbers are exact rationals <<p, q>> (q > 0, gcd(p, q) = 1), so    *)
(* that matrix products, inflation and the forgetting factor are computed  *)
(* as the code computes them.  Matrices are sequences of rows.             *)
(***************************************************************************)
EXTENDS Integers, Sequences, FiniteSets, TLC

(***************************************************************************)
(* Exact rational arithmetic (stands for the code's double arithmetic).    *)
(***************************************************************************)
Abs(x) == IF x < 0 THEN -x ELSE x

\* Op applied to the value of v (v is evaluated once).
Bind(v, Op(_)) == CHOOSE r \in {Op(x) : x \in {v}} : TRUE

RECURSIVE GCD(_, _)
GCD(a, b) == IF b = 0 THEN a ELSE GCD(b, a % b)

Rat(p, q) ==
    LET g == GCD(Abs(p), Abs(q))
        s == IF q < 0 THEN -1 ELSE 1
    IN  <<(s * p) \div g, (s * q) \div g>>

RInt(i) == <<i, 1>>
RZero == <<0, 1>>
ROne == <<1, 1>>
RAdd(a, b) == Rat(a[1] * b[2] + b[1] * a[2], a[2] * b[2])
RSub(a, b) == Rat(a[1] * b[2] - b[1] * a[2], a[2] * b[2])
RMul(a, b) == Rat(a[1] * b[1], a[2] * b[2])
RDivInt(a, i) == Rat(a[1], a[2] * i)

RECURSIVE RSum(_, _)
RSum(f, m) == IF m = 0 THEN RZero ELSE RAdd(RSum(f, m - 1), f[m])

(***************************************************************************)
(* Dense matrices (Eigen Array2d / Matrix).                                *)
(***************************************************************************)
\* Ensemble size (number of columns of every ensemble, order of every X).
N == 2
\* State size (number of rows of the global ensemble).
n == 2

MatMul(A, B) ==
    [i \in 1..Len(A) |->
        [j \in 1..N |-> RSum([k \in 1..Len(B) |-> RMul(A[i][k], B[k][j])], Len(B))]]

Identity == [i \in 1..N |-> [j \in 1..N |-> IF i = j THEN ROne ELSE RZero]]
Constant(c) == [i \in 1..N |-> [j \in 1..N |-> c]]
MatAdd(A, B) == [i \in 1..Len(A) |-> [j \in 1..N |-> RAdd(A[i][j], B[i][j])]]
MatScale(c, A) == [i \in 1..Len(A) |-> [j \in 1..N |-> RMul(c, A[i][j])]]
ZeroRows(m) == [i \in 1..m |-> [j \in 1..N |-> RZero]]

\* A.block(start, 0, cnt, N): rows start+1 .. start+cnt (start is 0-based).
Block(A, start, cnt) == [i \in 1..cnt |-> A[start + i]]
\* Assignment to A.block(start, 0, Len(B), N).
SetBlock(A, start, B) ==
    [i \in 1..Len(A) |->
        IF i > start /\ i <= start + Len(B) THEN B[i - start] ELSE A[i]]

\* E.rowwise().mean()
RowMean(E) == [i \in 1..Len(E) |-> RDivInt(RSum(E[i], N), N)]

\* E = ((E.colwise() - Eu) * k).colwise() + Eu
inflateInPlace(E, k) ==
    [i \in 1..Len(E) |->
        [j \in 1..N |-> RAdd(RMul(RSub(E[i][j], RowMean(E)[i]), k), RowMean(E)[i])]]

\* X = ((X - I) * f) + I, skipped when f = 1
smootherApplyForgetFactor(X, f) ==
    IF f = ROne THEN X
    ELSE [i \in 1..N |->
            [j \in 1..N |->
                IF i = j THEN RAdd(RMul(RSub(X[i][j], ROne), f), ROne)
                ELSE RMul(X[i][j], f)]]


(***************************************************************************)
(* Inputs of the model.                                                    *)
(***************************************************************************)
\* Number of beginAnalysis calls a behaviour may make.
MaxSteps == 2
\* Number of assimilate calls a behaviour may make.
MaxAssim == 2
\* Largest smoother lag the constructor is given.
MaxLag == 2

Half == Rat(1, 2)
M2(a, b, c, d) == <<<<a, b>>, <<c, d>>>>

\* The forecast ensemble the caller passes at step k (k0 for beginSmoother).
Forecast(k) == M2(RInt(k + 1), RInt(3), RInt(2), RInt(2 * k))

\* Observation batches handed out by the observation manager.
ObsIds == {1, 2}
\* EnKS: the product K * D the batch gives rise to (EnKSVariantEnKS.cpp:62-80).
KD(o) == IF o = 1 THEN M2(RZero, ROne, RZero, RZero)
                  ELSE M2(RZero, RZero, ROne, RZero)
\* ESTKS: the product mT * W the batch gives rise to (EnKSVariantESTKS.cpp:65-99);
\* its columns sum to zero as those of mT do.
TW(o) == IF o = 1 THEN M2(Half, RZero, Rat(-1, 2), RZero)
                  ELSE M2(RZero, Rat(-1, 2), RZero, Half)

\* Values setCovInflationFactor / setSmootherForgettingFactor are called with.
InflationInputs == {Half, ROne, Rat(3, 2)}
ForgetInputs == {Half, ROne, RInt(2)}
\* Values the member ESTKS::mInflation, which no constructor sets, may hold
\* before applyCovInflation(): 0 in a value-initialised ESTKS(), else anything.
IndeterminateInflation == {RZero, ROne}

\* Domain partitioners handed to localize(): each domain is the sequence of
\* global rows (1-based) it holds.  The second domain of the first one is empty.
Partitioners == { <<<<1>>, <<>>, <<2>>>>, <<<<1, 2>>>> }
\* Domains (0-based ids, in fetch order) for which the observation manager
\* returns data during one localized assimilate call.
FetchLists == { <<>>, <<0>>, <<2>>, <<0, 1, 2>> }

GlobalAnalysisDomainId == -1
NullHandle == -1

VARIABLES
    \* construction / configuration
    variant, lag, covInflation, smForgetFactor, mOnResultFn, mInflation,
    \* localization data
    locSSP, locNumDomains, locNumNonemptyDomains, locTotalStateSize,
    locStateLimits, locXLimits, locEaug, locX, locHaveX,
    \* data of the current update
    upK, updateActive, upHaveAssimilatedObs, upE, upX, upHaveX,
    \* smoother history and the array cache
    ksSteps, handleCounter, entries,
    \* what the environment observes
    results, lastCall, xLog,
    \* the caller
    phase, nSteps, nAssim,
    \* a GridDomainPartitioning and the buffers of its caller
    gShape, gNumVarsPerCell, gBlockSize, gDomains, gXg, gLocals, gXout, gFetched, gPut,
    \* the array GridDomain::getCoords() has filled for its caller
    gCoords,
    \* the callers of a MemoryArrayCache used on its own: the handles put()
    \* returned, the handles that stopped being valid, the arrays callers
    \* hold, and the call made last
    cIssued, cInvalid, cHeld, cLast,
    \* a KalmanSmoother (KalmanSmoother::Data), its MemoryArrayCache, what it
    \* reported, the call made last and the number of analysis steps begun
    kfLag, kfOnResultFn, kfUpdateActive, kfUpX, kfUpP, kfUpK, kfSmXf, kfSmPf, kfSteps,
    kfCounter, kfEntries, kfResults, kfLast, kfBegun, kfN,
    \* a DiagonalCovariance, the array it was constructed from, the call made
    \* on it last and what the call returned
    dcThis, dcArg, dcLast,
    \* a SimpleObservationManager (SimpleObservationManager::Data), the state of
    \* its caller and the entries fetchObservations() returned
    omObs, omObsCoords, omH, omR, omPartitioner, omTaperFn, omObsQuery,
    omCurrentDomain, omNumDomains, omPhase, omReturned, omLast,
    \* an AsyncJobExecutor running pipeline(source, sink, maxJobs): the
    \* executor, the arguments, the position of the calling thread, the thread
    \* pool, and what source, the jobs and sink have seen
    ppKind, ppMaxThreads, ppMaxJobs, ppNumJobs, ppPc, ppId, ppJob, ppScheduled, ppQueue,
    ppRunning, ppDone, ppRuns, ppSunk, ppSourceCalls, ppLive

cfgVars == <<variant, lag, covInflation, smForgetFactor, mOnResultFn>>
locCfgVars == <<locSSP, locNumDomains, locNumNonemptyDomains, locTotalStateSize,
                locStateLimits, locXLimits>>
locBufVars == <<locEaug, locX, locHaveX>>
upVars == <<upK, updateActive, upHaveAssimilatedObs, upE, upX, upHaveX>>
cacheVars == <<ksSteps, handleCounter, entries>>
callerVars == <<phase, nSteps, nAssim>>
smootherVars == <<cfgVars, mInflation, locCfgVars, locBufVars, upVars, cacheVars,
                  results, lastCall, xLog, callerVars>>
gridVars == <<gShape, gNumVarsPerCell, gBlockSize, gDomains, gXg, gLocals, gXout,
              gFetched, gPut, gCoords>>
cacheUserVars == <<cIssued, cInvalid, cHeld, cLast>>
kfVars == <<kfLag, kfOnResultFn, kfUpdateActive, kfUpX, kfUpP, kfUpK, kfSmXf, kfSmPf,
            kfSteps, kfCounter, kfEntries, kfResults, kfLast, kfBegun, kfN>>
dcVars == <<dcThis, dcArg, dcLast>>
omVars == <<omObs, omObsCoords, omH, omR, omPartitioner, omTaperFn, omObsQuery,
            omCurrentDomain, omNumDomains, omPhase, omReturned, omLast>>
ppVars == <<ppKind, ppMaxThreads, ppMaxJobs, ppNumJobs, ppPc, ppId, ppJob, ppScheduled,
            ppQueue, ppRunning, ppDone, ppRuns, ppSunk, ppSourceCalls, ppLive>>
vars == <<smootherVars, gridVars, cacheUserVars, kfVars, dcVars, omVars, ppVars>>
\* What a step of one component leaves alone.
exceptSmoother == <<gridVars, cacheUserVars, kfVars, dcVars, omVars, ppVars>>
exceptGrid == <<smootherVars, cacheUserVars, kfVars, dcVars, omVars, ppVars>>
exceptKalman == <<smootherVars, gridVars, cacheUserVars, dcVars, omVars, ppVars>>
exceptCovariance == <<smootherVars, gridVars, cacheUserVars, kfVars, omVars, ppVars>>
exceptObsManager == <<smootherVars, gridVars, cacheUserVars, kfVars, dcVars, ppVars>>
exceptPipeline == <<smootherVars, gridVars, cacheUserVars, kfVars, dcVars, omVars>>
exceptCache == <<cfgVars, mInflation, locCfgVars, locBufVars, upVars, ksSteps,
                 results, lastCall, xLog, callerVars, gridVars, kfVars, dcVars, omVars,
                 ppVars>>

\* The call made last: its outcome, the number of results reported before it
\* and the handles it passed to cache->get(), in call order.
Call(op, out) == [op |-> op, out |-> out, n0 |-> Len(results), gets |-> <<>>]

(***************************************************************************)
(* EnKSVariant implementations.                                            *)
(***************************************************************************)
\* EnKS::ensembleTransform: Xout = K*D + I; E = E * Xout.
EnKS_ensembleTransform(E, o) ==
    LET Xout == MatAdd(KD(o), Identity)
    IN  [E |-> MatMul(E, Xout), Xout |-> Xout]

\* "double rho = 1.0 - (mInflation - 1.0)"
ESTKS_rho(infl) == RSub(ROne, RSub(infl, ROne))

\* ESTKS::ensembleTransform: Xout = 1/N + mT*W; E = E * Xout; with rho # 1 the
\* matrix left in Xout is recomputed as 1/N + (rho*mT)*W.
ESTKS_ensembleTransform(E, o, infl) ==
    LET rho == ESTKS_rho(infl)
        X1 == MatAdd(Constant(Rat(1, N)), TW(o))
        X2 == MatAdd(Constant(Rat(1, N)), MatScale(rho, TW(o)))
    IN  [E |-> MatMul(E, X1), Xout |-> IF rho # ROne THEN X2 ELSE X1]

ensembleTransform(E, o) ==
    IF variant = "EnKS" THEN EnKS_ensembleTransform(E, o)
    ELSE ESTKS_ensembleTransform(E, o, mInflation)


(***************************************************************************)
(* Localization bookkeeping (EnsembleKalmanSmoother::localize and the      *)
(* pack / unpack helpers).  Domain d (0-based) is entry d + 1 of a sequence.*)
(***************************************************************************)
isLocalized == locNumDomains > 1

\* DomainPartitioning::getLocalSize(d)
getLocalSize(ssp, d) == Len(ssp[d + 1])
\* DomainPartitioning::getLocal(d, Xg, outXl)
getLocal(ssp, d, Xg) == [i \in 1..Len(ssp[d + 1]) |-> Xg[ssp[d + 1][i]]]
\* DomainPartitioning::putLocal(d, Xl, Xg)
putLocal(ssp, d, Xl, Xg) ==
    [r \in 1..Len(Xg) |->
        IF \E i \in 1..Len(ssp[d + 1]) : ssp[d + 1][i] = r
        THEN Xl[CHOOSE i \in 1..Len(ssp[d + 1]) : ssp[d + 1][i] = r]
        ELSE Xg[r]]

\* The loop of localize() over the domains 0 .. d-1: the running totals and
\* the limits written so far.
\* localizeStep_m is the faulty variant that counts every domain, empty or
\* not, for the position of the transform slot.
localizeStep_m(p, nloc) ==
    [nonempty |-> IF nloc > 0 THEN p.nonempty + 1 ELSE p.nonempty,
     total |-> p.total + nloc,
     stateLimits |-> Append(p.stateLimits, <<p.total, nloc>>),
     xLimits |-> Append(p.xLimits, Len(p.xLimits) * N)]
localizeStep(p, nloc) ==
    [nonempty |-> IF nloc > 0 THEN p.nonempty + 1 ELSE p.nonempty,
     total |-> p.total + nloc,
     stateLimits |-> Append(p.stateLimits, <<p.total, nloc>>),
     xLimits |-> Append(p.xLimits, p.nonempty * N)]

RECURSIVE localizeLoop(_, _)
localizeLoop(ssp, d) ==
    IF d = 0
    THEN [nonempty |-> 0, total |-> 0, stateLimits |-> <<>>, xLimits |-> <<>>]
    ELSE Bind(localizeLoop(ssp, d - 1),
              LAMBDA p : localizeStep(p, getLocalSize(ssp, d - 1)))

\* The calls fn(d, i, start, nloc) foreachNonemptyDomain() makes, in order.
RECURSIVE foreachNonemptyDomainUpTo(_)
foreachNonemptyDomainUpTo(d) ==
    IF d = 0 THEN <<>>
    ELSE Bind(foreachNonemptyDomainUpTo(d - 1),
              LAMBDA prev :
                LET start == locStateLimits[d][1]
                    nloc == locStateLimits[d][2]
                IN  IF nloc = 0 THEN prev
                    ELSE Append(prev, [d |-> d - 1, i |-> Len(prev),
                                       start |-> start, nloc |-> nloc]))

foreachNonemptyDomain == foreachNonemptyDomainUpTo(locNumDomains)

RECURSIVE unpackFold(_, _, _, _)
unpackFold(calls, E, Eaug, m) ==
    IF m = 0 THEN Eaug
    ELSE Bind(unpackFold(calls, E, Eaug, m - 1),
              LAMBDA A : SetBlock(A, calls[m].start, getLocal(locSSP, calls[m].d, E)))

\* Data::unpackEnsemble(E, Eaug): the new contents of Eaug.
unpackEnsemble(E, Eaug) ==
    Bind(foreachNonemptyDomain, LAMBDA calls : unpackFold(calls, E, Eaug, Len(calls)))

RECURSIVE packFold(_, _, _, _)
packFold(calls, Eaug, E, m) ==
    IF m = 0 THEN E
    ELSE Bind(packFold(calls, Eaug, E, m - 1),
              LAMBDA G : putLocal(locSSP, calls[m].d,
                                  Block(Eaug, calls[m].start, calls[m].nloc), G))

\* Data::packEnsemble(Eaug, E): the new contents of E.
packEnsemble(Eaug, E) ==
    Bind(foreachNonemptyDomain, LAMBDA calls : packFold(calls, Eaug, E, Len(calls)))

(***************************************************************************)
(* MemoryArrayCache.                                                       *)
(***************************************************************************)
\* put(): the handle handed out and the cache afterwards.
cachePut(ents, counter, data) ==
    [handle |-> counter, entries |-> ents @@ (counter :> data), counter |-> counter + 1]

\* get(): the two assertions it makes.
cacheGetOk(ents, handle) == handle # NullHandle /\ handle \in DOMAIN ents

\* remove(): erase of the handle (a no-op for a handle that is not stored).
\* cacheRemove_m is the faulty variant that erases nothing.
cacheRemove_m(ents, handle) == ents
cacheRemove(ents, handle) == [h \in DOMAIN ents \ {handle} |-> ents[h]]

(***************************************************************************)
(* GridDomain / GridDomainPartitioning on a dense grid (no cell map).      *)
(* A block is [min |-> <<..>>, max |-> <<..>>] in cells (max exclusive);   *)
(* state rows are 0-based in the code and 1-based in the sequences here.   *)
(***************************************************************************)
\* Largest number of cells along one grid dimension.
MaxCells == 3
\* Largest number of state variables per cell.
MaxVarsPerCell == 2
\* Largest block size the partitioning is constructed with.
MaxBlockSize == 3

Min(a, b) == IF a < b THEN a ELSE b

\* Grid shapes: one- and two-dimensional.
GridShapes == {<<c>> : c \in 1..MaxCells}
                \cup {<<r, c>> : r \in 1..MaxCells, c \in 1..MaxCells}

RECURSIVE prod(_, _)
prod(shape, m) == IF m = 0 THEN 1 ELSE prod(shape, m - 1) * shape[m]

\* GridDomain::GridDomain: mSize = shape.prod() * numVarsPerCell
GridDomain_size(shape, numVarsPerCell) == prod(shape, Len(shape)) * numVarsPerCell

\* The global ensemble getLocal is given: all rows differ and none is zero.
GridEnsemble(size) == [r \in 1..size |-> [c \in 1..N |-> N * (r - 1) + c]]
ZeroEnsemble(size) == [r \in 1..size |-> [c \in 1..N |-> 0]]

\* Eigen::AlignedBox::volume(): the product of the box's sizes.
volume(block) == prod([k \in DOMAIN block.min |-> block.max[k] - block.min[k]],
                      Len(block.min))

\* GridDomain::blockSize(block), dense grid.
GridDomain_blockSize(block, numVarsPerCell) == volume(block) * numVarsPerCell

\* addDomainFn of generateDomains (dense grid: hasEfficientSubset(), no indices).
addDomainFn(domains, block, numVarsPerCell) ==
    LET size == GridDomain_blockSize(block, numVarsPerCell)
    IN  IF size > 0 THEN Append(domains, [block |-> block, size |-> size])
        ELSE domains

\* for (i = 0; i < N; i += blockSize) of the one-dimensional case.
RECURSIVE generateDomains1(_, _, _, _, _)
generateDomains1(i, NN, blockSize, numVarsPerCell, domains) ==
    IF ~(i < NN) THEN domains
    ELSE generateDomains1(i + blockSize, NN, blockSize, numVarsPerCell,
             addDomainFn(domains,
                         [min |-> <<i>>, max |-> <<Min(i + blockSize, NN)>>],
                         numVarsPerCell))

\* for (j = 0; j < NC; j += blockSize), the inner loop of the 2-D case.
RECURSIVE generateDomainsCols(_, _, _, _, _, _, _)
generateDomainsCols(i, iend, j, NC, blockSize, numVarsPerCell, domains) ==
    IF ~(j < NC) THEN domains
    ELSE generateDomainsCols(i, iend, j + blockSize, NC, blockSize, numVarsPerCell,
             addDomainFn(domains,
                         [min |-> <<i, j>>, max |-> <<iend, Min(j + blockSize, NC)>>],
                         numVarsPerCell))

\* for (i = 0; i < NR; i += blockSize), the outer loop of the 2-D case.
RECURSIVE generateDomainsRows(_, _, _, _, _, _)
generateDomainsRows(i, NR, NC, blockSize, numVarsPerCell, domains) ==
    IF ~(i < NR) THEN domains
    ELSE generateDomainsRows(i + blockSize, NR, NC, blockSize, numVarsPerCell,
             generateDomainsCols(i, Min(i + blockSize, NR), 0, NC, blockSize,
                                 numVarsPerCell, domains))

\* GridDomainPartitioning::Data::generateDomains
generateDomains(shape, blockSize, numVarsPerCell) ==
    IF Len(shape) = 1
    THEN generateDomains1(0, shape[1], blockSize, numVarsPerCell, <<>>)
    ELSE generateDomainsRows(0, shape[1], shape[2], blockSize, numVarsPerCell, <<>>)

\* Length of one grid row in the state vector (forEachBlockStateRange, dim 2).
ysize(gridShape, numVarsPerCell) == gridShape[2] * numVarsPerCell

\* forEachBlockStateRange: the ranges <<i, iend>> (0-based, iend exclusive) that
\* fn is called with, in call order.
forEachBlockStateRange(block, numVarsPerCell, gridShape) ==
    IF Len(gridShape) = 1
    THEN << <<block.min[1] * numVarsPerCell, block.max[1] * numVarsPerCell>> >>
    ELSE [t \in 1..(block.max[1] - block.min[1]) |->
            LET x == block.min[1] + t - 1
            IN  <<x * ysize(gridShape, numVarsPerCell) + block.min[2] * numVarsPerCell,
                  x * ysize(gridShape, numVarsPerCell) + block.max[2] * numVarsPerCell>>]

\* out.block(to, 0, cnt, N) = X.block(from, 0, cnt, N), 0-based row offsets.
copyBlock(out, to, X, from, cnt) ==
    [r \in DOMAIN out |->
        IF r > to /\ r <= to + cnt THEN X[from + (r - to)] ELSE out[r]]

\* ilocal += n, the step of the local offset after each range; nextLocal_m is
\* the faulty variant that leaves the offset alone.
nextLocal_m(ilocal, cnt) == ilocal
nextLocal(ilocal, cnt) == ilocal + cnt

\* GridDomain::getSubset, dense grid: the first m ranges are copied.
RECURSIVE getSubsetFold(_, _, _, _)
getSubsetFold(ranges, X, out, m) ==
    IF m = 0 THEN [out |-> out, ilocal |-> 0]
    ELSE LET p == getSubsetFold(ranges, X, out, m - 1)
             cnt == ranges[m][2] - ranges[m][1]
         IN  [out |-> copyBlock(p.out, p.ilocal, X, ranges[m][1], cnt),
              ilocal |-> nextLocal(p.ilocal, cnt)]

getSubset(block, numVarsPerCell, gridShape, X, out) ==
    LET ranges == forEachBlockStateRange(block, numVarsPerCell, gridShape)
    IN  getSubsetFold(ranges, X, out, Len(ranges)).out

\* GridDomain::putSubset, dense grid.
RECURSIVE putSubsetFold(_, _, _, _)
putSubsetFold(ranges, X, out, m) ==
    IF m = 0 THEN [out |-> out, ilocal |-> 0]
    ELSE LET p == putSubsetFold(ranges, X, out, m - 1)
             cnt == ranges[m][2] - ranges[m][1]
         IN  [out |-> copyBlock(p.out, ranges[m][1], X, p.ilocal, cnt),
              ilocal |-> nextLocal(p.ilocal, cnt)]

putSubset(block, numVarsPerCell, gridShape, X, out) ==
    LET ranges == forEachBlockStateRange(block, numVarsPerCell, gridShape)
    IN  putSubsetFold(ranges, X, out, Len(ranges)).out

\* GridDomainPartitioning::getLocalSize(d), d 0-based.
GridDomainPartitioning_getLocalSize(domains, d) == domains[d + 1].size

\* GridDomainPartitioning::getLocal(d, Xg, out): an empty domain leaves out alone;
\* a dense grid takes the getSubset() branch.
GridDomainPartitioning_getLocal(domains, numVarsPerCell, gridShape, d, Xg, out) ==
    IF domains[d + 1].size = 0 THEN out
    ELSE getSubset(domains[d + 1].block, numVarsPerCell, gridShape, Xg, out)

\* GridDomainPartitioning::putLocal(d, Xl, Xg)
GridDomainPartitioning_putLocal(domains, numVarsPerCell, gridShape, d, Xl, Xg) ==
    IF domains[d + 1].size = 0 THEN Xg
    ELSE putSubset(domains[d + 1].block, numVarsPerCell, gridShape, Xl, Xg)


(***************************************************************************)
(* Construction and configuration.                                         *)
(***************************************************************************)
\* The smoother after EnsembleKalmanSmoother(variant, n, N, lag, cache).
SmootherInit ==
    /\ variant \in {"EnKS", "ESTKS"}
    /\ lag \in 0..MaxLag
    /\ covInflation = ROne
    /\ smForgetFactor = ROne
    /\ mOnResultFn = FALSE
    /\ mInflation \in (IF variant = "ESTKS" THEN IndeterminateInflation ELSE {ROne})
    /\ locSSP = <<>>
    /\ locNumDomains = 0
    /\ locNumNonemptyDomains = 0
    /\ locTotalStateSize = 0
    /\ locStateLimits = <<>>
    /\ locXLimits = <<>>
    /\ locEaug = <<>>
    /\ locX = <<>>
    /\ locHaveX = <<>>
    /\ upK = 0
    /\ updateActive = FALSE
    /\ upHaveAssimilatedObs = FALSE
    /\ upE = <<>>
    /\ upX = ZeroRows(0)
    /\ upHaveX = FALSE
    /\ ksSteps = <<>>
    /\ handleCounter = 0
    /\ entries = <<>>
    /\ results = <<>>
    /\ lastCall = [op |-> "construct", out |-> "ok", n0 |-> 0, gets |-> <<>>]
    /\ xLog = <<>>
    /\ phase = "setup"
    /\ nSteps = 0
    /\ nAssim = 0

\* No grid partitioning is in use.
GridUnused ==
    /\ gShape = <<>>
    /\ gNumVarsPerCell = 0
    /\ gBlockSize = 0
    /\ gDomains = <<>>
    /\ gXg = <<>>
    /\ gLocals = <<>>
    /\ gXout = <<>>
    /\ gFetched = {}
    /\ gPut = {}
    /\ gCoords = <<>>

\* No cache is used on its own.
CacheUnused ==
    /\ cIssued = <<>>
    /\ cInvalid = {}
    /\ cHeld = {}
    /\ cLast = [op |-> "none", handle |-> NullHandle, out |-> "ok", ret |-> <<>>]

\* No KalmanSmoother has been constructed.
KalmanUnused ==
    /\ kfLag = 0
    /\ kfOnResultFn = FALSE
    /\ kfUpdateActive = FALSE
    /\ kfUpX = <<>>
    /\ kfUpP = <<>>
    /\ kfUpK = 0
    /\ kfSmXf = NullHandle
    /\ kfSmPf = NullHandle
    /\ kfSteps = <<>>
    /\ kfCounter = 0
    /\ kfEntries = <<>>
    /\ kfResults = <<>>
    /\ kfLast = [op |-> "none", out |-> "ok"]
    /\ kfBegun = FALSE
    /\ kfN = 0

\* No DiagonalCovariance has been constructed.
CovarianceUnused ==
    /\ dcThis = <<>>
    /\ dcArg = <<>>
    /\ dcLast = [op |-> "none", out |-> "ok", ret |-> <<>>]

\* No SimpleObservationManager has been constructed.
ObsManagerUnused ==
    /\ omObs = <<>>
    /\ omObsCoords = <<>>
    /\ omH = <<>>
    /\ omR = <<>>
    /\ omPartitioner = [isNull |-> TRUE, numLocalDomains |-> 0]
    /\ omTaperFn = [kind |-> "null", L |-> 0]
    /\ omObsQuery = <<>>
    /\ omCurrentDomain = 0
    /\ omNumDomains = 0
    /\ omPhase = "none"
    /\ omReturned = <<>>
    /\ omLast = [op |-> "none", out |-> "ok"]

\* No executor has been constructed.
PipelineUnused ==
    /\ ppKind = "none"
    /\ ppMaxThreads = 0
    /\ ppMaxJobs = 0
    /\ ppNumJobs = 0
    /\ ppPc = "none"
    /\ ppId = 0
    /\ ppJob = 0
    /\ ppScheduled = <<>>
    /\ ppQueue = <<>>
    /\ ppRunning = <<>>
    /\ ppDone = {}
    /\ ppRuns = <<>>
    /\ ppSunk = <<>>
    /\ ppSourceCalls = <<>>
    /\ ppLive = {}

Init ==
    /\ SmootherInit
    /\ GridUnused
    /\ CacheUnused
    /\ KalmanUnused
    /\ CovarianceUnused
    /\ ObsManagerUnused
    /\ PipelineUnused

\* SequentialEnsembleFilter::onResult(fn)
OnResult ==
    /\ phase = "setup"
    /\ mOnResultFn' = TRUE
    /\ lastCall' = Call("onResult", "ok")
    /\ UNCHANGED <<exceptSmoother, variant, lag, covInflation, smForgetFactor, mInflation, locCfgVars,
                   locBufVars, upVars, cacheVars, results, xLog, callerVars>>

\* EnsembleKalmanSmoother::setCovInflationFactor(factor)
SetCovInflationFactor ==
    /\ phase = "setup" \/ ~updateActive
    /\ \E factor \in InflationInputs :
        IF factor[1] >= factor[2]
        THEN /\ covInflation' = factor
             /\ lastCall' = Call("setCovInflationFactor", "ok")
        ELSE /\ lastCall' = Call("setCovInflationFactor", "assert")
             /\ UNCHANGED covInflation
    /\ UNCHANGED <<exceptSmoother, variant, lag, smForgetFactor, mOnResultFn, mInflation, locCfgVars,
                   locBufVars, upVars, cacheVars, results, xLog, callerVars>>

\* EnsembleKalmanSmoother::setSmootherForgettingFactor(factor)
SetSmootherForgettingFactor ==
    /\ phase = "setup"
    /\ \E factor \in ForgetInputs :
        IF factor[1] <= factor[2]
        THEN /\ smForgetFactor' = factor
             /\ lastCall' = Call("setSmootherForgettingFactor", "ok")
        ELSE /\ lastCall' = Call("setSmootherForgettingFactor", "assert")
             /\ UNCHANGED smForgetFactor
    /\ UNCHANGED <<exceptSmoother, variant, lag, covInflation, mOnResultFn, mInflation, locCfgVars,
                   locBufVars, upVars, cacheVars, results, xLog, callerVars>>

\* EnsembleKalmanSmoother::localize(partitioner, taperFn); a partitioner with a
\* single domain ends in globalize().
LocalizeWith(ssp) ==
    /\ phase = "setup"
    /\ IF Len(ssp) = 1
       THEN /\ locSSP' = <<>>
            /\ locNumDomains' = 1
            /\ locTotalStateSize' = n
            /\ locStateLimits' = <<>>
            /\ locXLimits' = <<>>
            /\ locEaug' = <<>>
            /\ locX' = <<>>
            /\ locHaveX' = <<>>
            /\ UNCHANGED locNumNonemptyDomains
       ELSE \E r \in {localizeLoop(ssp, Len(ssp))} :
                /\ locSSP' = ssp
                /\ locNumDomains' = Len(ssp)
                /\ locNumNonemptyDomains' = r.nonempty
                /\ locTotalStateSize' = r.total
                /\ locStateLimits' = r.stateLimits
                /\ locXLimits' = r.xLimits
                /\ locEaug' = ZeroRows(r.total)
                /\ locX' = ZeroRows(r.nonempty * N)
                /\ locHaveX' = [i \in 1..(Len(ssp) * N) |-> FALSE]
    /\ lastCall' = Call("localize", "ok")
    /\ UNCHANGED <<exceptSmoother, cfgVars, mInflation, upVars, cacheVars, results, xLog, callerVars>>

Localize == \E ssp \in Partitioners : LocalizeWith(ssp)


(***************************************************************************)
(* The analysis protocol.                                                  *)
(***************************************************************************)
\* The call-order assertion each operation starts with; endSmootherAssert_m is
\* the faulty variant without the assertion.
beginSmootherAssert == ~updateActive
beginAnalysisAssert == ~updateActive
assimilateAssert == updateActive
endAnalysisAssert == updateActive
endSmootherAssert_m == TRUE
endSmootherAssert == ~updateActive

\* EnsembleKalmanSmoother::beginSmoother(E0, k0)
BeginSmoother ==
    LET E0 == Forecast(nSteps)
        k0 == nSteps
    IN
    IF ~beginSmootherAssert
    THEN /\ lastCall' = Call("beginSmoother", "assert")
         /\ UNCHANGED <<exceptSmoother, cfgVars, mInflation, locCfgVars, locBufVars, upVars, cacheVars,
                        results, xLog, callerVars>>
    ELSE /\ phase = "setup"
         /\ phase' = "run"
         /\ lastCall' = Call("beginSmoother", "ok")
         /\ IF lag = 0
            THEN UNCHANGED <<exceptSmoother, locEaug, upE, cacheVars>>
            ELSE \E Eaug \in {IF isLocalized THEN unpackEnsemble(E0, locEaug) ELSE locEaug} :
                 LET c == cachePut(entries, handleCounter, IF isLocalized THEN Eaug ELSE E0)
                 IN  /\ upE' = <<>>
                     /\ locEaug' = Eaug
                     /\ entries' = c.entries
                     /\ handleCounter' = c.counter
                     /\ ksSteps' = <<[k |-> k0, E |-> c.handle]>>
         /\ UNCHANGED <<exceptSmoother, cfgVars, mInflation, locCfgVars, locX, locHaveX, upK, updateActive,
                        upHaveAssimilatedObs, upX, upHaveX, results, xLog, nSteps, nAssim>>

\* EnsembleKalmanSmoother::beginAnalysis(E, k)
BeginAnalysis ==
    LET k == nSteps + 1
        E == Forecast(k)
    IN
    IF ~beginAnalysisAssert
    THEN /\ lastCall' = Call("beginAnalysis", "assert")
         /\ UNCHANGED <<exceptSmoother, cfgVars, mInflation, locCfgVars, locBufVars, upVars, cacheVars,
                        results, xLog, callerVars>>
    ELSE /\ nSteps < MaxSteps
         /\ nSteps' = nSteps + 1
         /\ phase' = "run"
         /\ lastCall' = Call("beginAnalysis", "ok")
         /\ upK' = k
         /\ upX' = IF Len(upX) = N THEN upX ELSE ZeroRows(N)
         /\ upHaveX' = FALSE
         /\ upHaveAssimilatedObs' = FALSE
         \* variant->applyCovInflation(): EnKS inflates E, ESTKS stores the factor
         /\ upE' = IF covInflation # ROne /\ variant = "EnKS"
                   THEN inflateInPlace(E, covInflation) ELSE E
         /\ mInflation' = IF covInflation # ROne /\ variant = "ESTKS"
                          THEN covInflation ELSE mInflation
         /\ IF isLocalized
            THEN /\ locHaveX' = [i \in DOMAIN locHaveX |-> FALSE]
                 /\ locEaug' = unpackEnsemble(upE', locEaug)
            ELSE UNCHANGED <<exceptSmoother, locHaveX, locEaug>>
         /\ updateActive' = TRUE
         /\ xLog' = <<>>
         /\ UNCHANGED <<exceptSmoother, cfgVars, locCfgVars, locX, cacheVars, results, nAssim>>

\* Data::assimilateOne(odata, Eg, E, X, haveX) for the observation batch o: what
\* it leaves in E, X and haveX, and the matrix the variant stored in Xout.
assimilateOne(o, E, X, haveX) ==
    Bind(ensembleTransform(E, o),
         LAMBDA t : [E |-> t.E,
                     X |-> IF ~haveX THEN t.Xout ELSE MatMul(X, t.Xout),
                     haveX |-> haveX \/ lag > 0,
                     Xout |-> t.Xout])

\* The locations the execution of assimilateOne for the data of domain d
\* writes: the rows of E and X it is handed (blocks of locEaug and locX), the
\* flag haveX refers to, and the member upHaveAssimilatedObs.
assimilateOneWrites(d) ==
    LET start == locStateLimits[d + 1][1]
        nloc == locStateLimits[d + 1][2]
        Xstart == locXLimits[d + 1]
    IN  {<<"locEaug", r>> : r \in start..(start + nloc - 1)}
            \cup {<<"locX", r>> : r \in Xstart..(Xstart + N - 1)}
            \cup {<<"locHaveX", d>>}
            \cup {<<"upHaveAssimilatedObs", 0>>}

\* "if (mData->upHaveAssimilatedObs)" at the start of the localized analysis:
\* whether the global ensemble is rebuilt from the augmented one;
\* assimilatePacks_m is the faulty variant that never rebuilds it.
assimilatePacks_m == FALSE
assimilatePacks == upHaveAssimilatedObs

\* The global ensemble Eg the localized assimilate() hands to assimilateOne.
assimilateEg == IF assimilatePacks THEN packEnsemble(locEaug, upE) ELSE upE

\* One pass of the fetch loop of the localized assimilate(), for the data of
\* domain d, on p = [Eaug, X, haveX, log].
assimilateLocalStep(p, d, o) ==
    LET start == locStateLimits[d + 1][1]
        nloc == locStateLimits[d + 1][2]
        Xstart == locXLimits[d + 1]
        Ed == Block(p.Eaug, start, nloc)
        Xd == Block(p.X, Xstart, N)
    IN  Bind(assimilateOne(o, Ed, Xd, p.haveX[d + 1]),
             LAMBDA a : [Eaug |-> SetBlock(p.Eaug, start, a.E),
                         X |-> SetBlock(p.X, Xstart, a.X),
                         haveX |-> [p.haveX EXCEPT ![d + 1] = a.haveX],
                         log |-> Append(p.log, [d |-> d, E |-> Ed, Ea |-> a.E,
                                                Xout |-> a.Xout, start |-> Xstart,
                                                Eg |-> assimilateEg,
                                                call |-> nAssim + 1])])

\* The fetch loop of the localized assimilate() over the first m fetched domains.
RECURSIVE assimilateLocal(_, _, _)
assimilateLocal(fetched, o, m) ==
    IF m = 0 THEN [Eaug |-> locEaug, X |-> locX, haveX |-> locHaveX, log |-> <<>>]
    ELSE Bind(assimilateLocal(fetched, o, m - 1),
              LAMBDA p : assimilateLocalStep(p, fetched[m], o))

\* EnsembleKalmanSmoother::assimilate(omgr)
Assimilate ==
    IF ~assimilateAssert
    THEN /\ lastCall' = Call("assimilate", "assert")
         /\ UNCHANGED <<exceptSmoother, cfgVars, mInflation, locCfgVars, locBufVars, upVars, cacheVars,
                        results, xLog, callerVars>>
    ELSE /\ nAssim < MaxAssim
         /\ nAssim' = nAssim + 1
         /\ lastCall' = Call("assimilate", "ok")
         /\ IF ~isLocalized
            THEN \* the manager returns one batch, or the empty sentinel (o = 0)
                 \E o \in ObsIds \cup {0} :
                    IF o = 0
                    THEN UNCHANGED <<exceptSmoother, upE, upX, upHaveX, upHaveAssimilatedObs, xLog, locBufVars>>
                    ELSE \E a \in {assimilateOne(o, upE, upX, upHaveX)} :
                             /\ upE' = a.E
                             /\ upX' = a.X
                             /\ upHaveX' = a.haveX
                             /\ upHaveAssimilatedObs' = TRUE
                             /\ xLog' = Append(xLog, [d |-> GlobalAnalysisDomainId, E |-> upE,
                                                      Ea |-> a.E, Xout |-> a.Xout, start |-> 0,
                                                      Eg |-> upE, call |-> nAssim + 1])
                             /\ UNCHANGED locBufVars
            ELSE \E fetched \in FetchLists, o \in ObsIds :
                    \E r \in {assimilateLocal(fetched, o, Len(fetched))} :
                        /\ upE' = assimilateEg
                        /\ locEaug' = r.Eaug
                        /\ locX' = r.X
                        /\ locHaveX' = r.haveX
                        /\ upHaveAssimilatedObs' = (upHaveAssimilatedObs \/ Len(fetched) > 0)
                        /\ xLog' = xLog \o r.log
                        /\ UNCHANGED <<exceptSmoother, upX, upHaveX>>
         /\ UNCHANGED <<exceptSmoother, cfgVars, mInflation, locCfgVars, upK, updateActive, cacheVars,
                        results, phase, nSteps>>


(***************************************************************************)
(* The lagged smoother.                                                    *)
(***************************************************************************)
\* The per-domain update of the cached augmented ensemble Ej inside
\* laggedSmoother(), over the first m non-empty domains: Ej and locX after it.
smootherLocalStep(p, c) ==
    IF ~locHaveX[c.d + 1] THEN p
    ELSE Bind(smootherApplyForgetFactor(Block(p.X, c.i * N, N), smForgetFactor),
              LAMBDA Xd : [Ej |-> SetBlock(p.Ej, c.start,
                                           MatMul(Block(p.Ej, c.start, c.nloc), Xd)),
                           X |-> SetBlock(p.X, c.i * N, Xd)])

RECURSIVE smootherLocalFold(_, _, _, _)
smootherLocalFold(calls, Ej, X, m) ==
    IF m = 0 THEN [Ej |-> Ej, X |-> X]
    ELSE Bind(smootherLocalFold(calls, Ej, X, m - 1),
              LAMBDA p : smootherLocalStep(p, calls[m]))

\* "bool jIsResult = (j == kend - lag) || finishing"; jIsResult_m is the faulty
\* variant that takes the record one step younger.
jIsResult_m(j, kend, finishing) == (j = kend - lag + 1) \/ finishing
jIsResult(j, kend, finishing) == (j = kend - lag) \/ finishing

\* The condition that ends the for loop: j == kend-1-lag, or the break at j < 0;
\* laggedSmootherDone_m is the faulty variant that stops one record early.
laggedSmootherDone_m(j, kend) == j = kend - lag \/ j < 0
laggedSmootherDone(j, kend) == j = kend - 1 - lag \/ j < 0

\* "if (!finishing)": whether the cached ensemble is multiplied at all;
\* smootherApplies_m is the faulty variant that multiplies at endSmoother too.
smootherApplies_m(finishing) == TRUE
smootherApplies(finishing) == ~finishing

\* The multiplication of the cached ensemble Ej by the transform(s) of the
\* current update (the "if (!finishing)" block): Ej, upX and locX after it.
smootherUpdate(Ej, finishing, st) ==
    IF ~smootherApplies(finishing) THEN [Ej |-> Ej, upX |-> st.upX, locX |-> st.locX]
    ELSE IF ~isLocalized
    THEN IF upHaveX
         THEN Bind(smootherApplyForgetFactor(st.upX, smForgetFactor),
                   LAMBDA X : [Ej |-> MatMul(Ej, X), upX |-> X, locX |-> st.locX])
         ELSE [Ej |-> Ej, upX |-> st.upX, locX |-> st.locX]
    ELSE Bind(foreachNonemptyDomain,
              LAMBDA calls :
                Bind(smootherLocalFold(calls, Ej, st.locX, Len(calls)),
                     LAMBDA f : [Ej |-> f.Ej, upX |-> st.upX, locX |-> f.X]))

\* The "if (jIsResult) ... else markDirty()" block for the record jdata, g being
\* the outcome of smootherUpdate.
smootherEmit(jdata, isResult, st, g) ==
    LET s1 == [st EXCEPT !.upX = g.upX, !.locX = g.locX,
                         !.entries = [st.entries EXCEPT ![jdata.E] = g.Ej]]
        removed == cacheRemove(st.entries, jdata.E)
    IN
    IF ~isResult THEN s1
    ELSE IF ~mOnResultFn THEN [s1 EXCEPT !.entries = removed]
    ELSE IF isLocalized
    THEN IF st.upE = <<>>
         THEN [s1 EXCEPT !.out = "crash"]   \* *upE with upE reset: null dereference
         ELSE Bind(packEnsemble(g.Ej, st.upE),
                   LAMBDA E : [s1 EXCEPT !.upE = E,
                                         !.results = Append(st.results, [k |-> jdata.k, E |-> E]),
                                         !.entries = removed])
    ELSE [s1 EXCEPT !.results = Append(st.results, [k |-> jdata.k, E |-> g.Ej]),
                    !.entries = removed]

\* One run of the body of the for loop of laggedSmoother() for index j (0-based)
\* on the state st = [entries, upX, locX, upE, results, out, gets].
laggedSmootherBody(j, kend, finishing, st) ==
    LET jdata == ksSteps[j + 1]
        s0 == [st EXCEPT !.gets = Append(st.gets, jdata.E)]
    IN  IF ~cacheGetOk(st.entries, jdata.E) THEN [s0 EXCEPT !.out = "assert"]
        ELSE Bind(smootherUpdate(st.entries[jdata.E], finishing, st),
                  LAMBDA g : smootherEmit(jdata, jIsResult(j, kend, finishing), s0, g))

\* The for loop of laggedSmoother(): for (j = kend-1; j != kend-1-lag; j--)
\* with the break at j < 0; an assertion failure or crash ends it.
RECURSIVE laggedSmootherLoop(_, _, _, _)
laggedSmootherLoop(j, kend, finishing, st) ==
    IF laggedSmootherDone(j, kend) \/ st.out # "ok" THEN st
    ELSE Bind(laggedSmootherBody(j, kend, finishing, st),
              LAMBDA s : laggedSmootherLoop(j - 1, kend, finishing, s))

\* Data::laggedSmoother(onresult, finishing)
laggedSmoother(finishing) ==
    LET st == [entries |-> entries, upX |-> upX, locX |-> locX, upE |-> upE,
               results |-> results, out |-> "ok", gets |-> <<>>]
    IN  IF Len(ksSteps) = 0 THEN st
        ELSE laggedSmootherLoop(Len(ksSteps) - 1, Len(ksSteps), finishing, st)

\* Whether endAnalysis() has to rebuild *upE from the augmented ensemble;
\* endAnalysisPacks_m is the faulty variant that ignores upHaveAssimilatedObs.
endAnalysisPacks_m == isLocalized /\ lag > 0
endAnalysisPacks == isLocalized /\ (upHaveAssimilatedObs \/ lag > 0)

\* EnsembleKalmanSmoother::endAnalysis()
EndAnalysis ==
    IF ~endAnalysisAssert
    THEN /\ lastCall' = Call("endAnalysis", "assert")
         /\ UNCHANGED <<exceptSmoother, cfgVars, mInflation, locCfgVars, locBufVars, upVars, cacheVars,
                        results, xLog, callerVars>>
    ELSE \E st \in {laggedSmoother(FALSE)} :
         LET E == IF endAnalysisPacks THEN packEnsemble(locEaug, st.upE) ELSE st.upE
             c == cachePut(st.entries, handleCounter, IF isLocalized THEN locEaug ELSE E)
         IN
         /\ lastCall' = [Call("endAnalysis", st.out) EXCEPT !.gets = st.gets]
         /\ upX' = st.upX
         /\ locX' = st.locX
         /\ IF st.out # "ok"
            THEN /\ upE' = st.upE
                 /\ results' = st.results
                 /\ entries' = st.entries
                 /\ UNCHANGED <<exceptSmoother, updateActive, ksSteps, handleCounter>>
            ELSE /\ upE' = E
                 /\ updateActive' = FALSE
                 /\ IF lag = 0
                    THEN /\ results' = IF mOnResultFn
                                       THEN Append(st.results, [k |-> upK, E |-> E])
                                       ELSE st.results
                         /\ entries' = st.entries
                         /\ UNCHANGED <<exceptSmoother, ksSteps, handleCounter>>
                    ELSE /\ results' = st.results
                         /\ entries' = c.entries
                         /\ handleCounter' = c.counter
                         /\ ksSteps' = Append(ksSteps, [k |-> upK, E |-> c.handle])
         /\ UNCHANGED <<exceptSmoother, cfgVars, mInflation, locCfgVars, locEaug, locHaveX, upK,
                        upHaveAssimilatedObs, upHaveX, xLog, callerVars>>

\* EnsembleKalmanSmoother::endSmoother()
EndSmoother ==
    IF ~endSmootherAssert
    THEN /\ lastCall' = Call("endSmoother", "assert")
         /\ UNCHANGED <<exceptSmoother, cfgVars, mInflation, locCfgVars, locBufVars, upVars, cacheVars,
                        results, xLog, callerVars>>
    ELSE IF lag = 0
    THEN /\ lastCall' = Call("endSmoother", "ok")
         /\ phase' = "run"
         /\ UNCHANGED <<exceptSmoother, cfgVars, mInflation, locCfgVars, locBufVars, upVars, cacheVars,
                        results, xLog, nSteps, nAssim>>
    ELSE IF ~mOnResultFn
    THEN /\ lastCall' = Call("endSmoother", "assert")
         /\ phase' = "run"
         /\ UNCHANGED <<exceptSmoother, cfgVars, mInflation, locCfgVars, locBufVars, upVars, cacheVars,
                        results, xLog, nSteps, nAssim>>
    ELSE \E st \in {laggedSmoother(TRUE)} :
             /\ lastCall' = [Call("endSmoother", st.out) EXCEPT !.gets = st.gets]
             /\ phase' = "run"
             /\ upX' = st.upX
             /\ locX' = st.locX
             /\ upE' = st.upE
             /\ results' = st.results
             /\ entries' = st.entries
             /\ UNCHANGED <<exceptSmoother, cfgVars, mInflation, locCfgVars, locEaug, locHaveX, upK,
                            updateActive, upHaveAssimilatedObs, upHaveX, ksSteps,
                            handleCounter, xLog, nSteps, nAssim>>

Next ==
    \/ OnResult
    \/ SetCovInflationFactor
    \/ SetSmootherForgettingFactor
    \/ Localize
    \/ BeginSmoother
    \/ BeginAnalysis
    \/ Assimilate
    \/ EndAnalysis
    \/ EndSmoother

Spec == Init /\ [][Next]_vars


(***************************************************************************)
(* Round trip through a GridDomainPartitioning: the caller reads every     *)
(* local domain with getLocal() and then writes every one back with        *)
(* putLocal() into a zero-initialized buffer.                              *)
(***************************************************************************)
\* GridDomainPartitioning(domain, blockSize, padding) over a dense GridDomain,
\* together with the caller's buffers.
GridInit ==
    /\ gShape \in GridShapes
    /\ gNumVarsPerCell \in 1..MaxVarsPerCell
    /\ gBlockSize \in 1..MaxBlockSize
    /\ gDomains = generateDomains(gShape, gBlockSize, gNumVarsPerCell)
    /\ gXg = GridEnsemble(GridDomain_size(gShape, gNumVarsPerCell))
    /\ gLocals = [d \in DOMAIN gDomains |->
                    ZeroEnsemble(GridDomainPartitioning_getLocalSize(gDomains, d - 1))]
    /\ gXout = ZeroEnsemble(GridDomain_size(gShape, gNumVarsPerCell))
    /\ gFetched = {}
    /\ gPut = {}
    /\ gCoords = <<>>

InitGrid ==
    /\ SmootherInit
    /\ variant = "EnKS"
    /\ lag = 0
    /\ GridInit
    /\ CacheUnused
    /\ KalmanUnused
    /\ CovarianceUnused
    /\ ObsManagerUnused
    /\ PipelineUnused

\* getLocal(d, Xg, out) for a domain not read yet.
GridGetLocal ==
    /\ gPut = {}
    /\ \E d \in 0..(Len(gDomains) - 1) :
        /\ d \notin gFetched
        /\ gLocals' = [gLocals EXCEPT ![d + 1] =
                          GridDomainPartitioning_getLocal(gDomains, gNumVarsPerCell,
                                                          gShape, d, gXg, gLocals[d + 1])]
        /\ gFetched' = gFetched \cup {d}
    /\ UNCHANGED <<gShape, gNumVarsPerCell, gBlockSize, gDomains, gXg, gXout, gPut, gCoords>>
    /\ UNCHANGED exceptGrid

\* putLocal(d, Xl, Xg) for a domain not written yet, once all have been read.
GridPutLocal ==
    /\ gFetched = 0..(Len(gDomains) - 1)
    /\ \E d \in 0..(Len(gDomains) - 1) :
        /\ d \notin gPut
        /\ gXout' = GridDomainPartitioning_putLocal(gDomains, gNumVarsPerCell, gShape,
                                                    d, gLocals[d + 1], gXout)
        /\ gPut' = gPut \cup {d}
    /\ UNCHANGED <<gShape, gNumVarsPerCell, gBlockSize, gDomains, gXg, gLocals, gFetched,
                   gCoords>>
    /\ UNCHANGED exceptGrid

NextGrid ==
    \/ GridGetLocal
    \/ GridPutLocal

SpecGrid == InitGrid /\ [][NextGrid]_vars


(***************************************************************************)
(* Properties of the smoother.                                             *)
(***************************************************************************)
\* The step indices reported by the callback so far.
EmittedSteps == [i \in DOMAIN results |-> results[i].k]
TimesEmitted(k) == Cardinality({i \in DOMAIN results : results[i].k = k})
\* The results appended by the call that was made last.
EmittedByLastCall == Len(results) - lastCall.n0
Returned(op) == lastCall.op = op /\ lastCall.out = "ok"
\* beginSmoother(E0, 0) has recorded the initial ensemble.
SmootherBegun == Len(ksSteps) > 0 /\ ksSteps[1].k = 0
\* The ensemble the analysis of the current step has produced.
AnalysisEnsemble == IF isLocalized THEN packEnsemble(locEaug, upE) ELSE upE

\* C1: with lag >= 1 and a callback set, after beginSmoother(E0, k0), m >= 1
\* complete analysis steps and endSmoother, the callback has been invoked
\* exactly once for k0 and exactly once for every analysed step.
C1_EachStepReportedOnce ==
    (lag >= 1 /\ mOnResultFn /\ SmootherBegun /\ nSteps >= 1 /\ Returned("endSmoother"))
        => /\ \A k \in 0..nSteps : TimesEmitted(k) = 1
           /\ Len(results) = nSteps + 1

C1_Witness ==
    /\ lag = 2 /\ mOnResultFn /\ SmootherBegun /\ nSteps = 2 /\ Returned("endSmoother")
    /\ Len(results) = 3

\* C2: the callback never receives a step index smaller than one it has
\* already received.
C2_NondecreasingOrder ==
    \A i, j \in DOMAIN results : i < j => results[i].k <= results[j].k

\* C3: with lag = L >= 1 every endAnalysis emits at most one result: the record
\* stored L analysis steps earlier when there is one, nothing while fewer than L
\* records exist; the younger records stay in the cache.
C3_ReadyAtLag ==
    (lag >= 1 /\ mOnResultFn /\ Returned("endAnalysis"))
        => LET kend == Len(ksSteps) - 1   \* records before this step's own
           IN  /\ EmittedByLastCall <= 1
               /\ kend < lag => EmittedByLastCall = 0
               /\ kend >= lag =>
                    /\ EmittedByLastCall = 1
                    /\ results[Len(results)].k = ksSteps[kend - lag + 1].k
                    /\ ksSteps[kend - lag + 1].E \notin DOMAIN entries
               /\ \A j \in 1..kend : j > kend - lag + 1 => ksSteps[j].E \in DOMAIN entries

C3_Witness ==
    /\ lag = 2 /\ mOnResultFn /\ Returned("endAnalysis") /\ Len(ksSteps) = 3
    /\ EmittedByLastCall = 1 /\ results[Len(results)].k = 0
    /\ ksSteps[2].E \in DOMAIN entries

\* C4: the call order is enforced by assertions: beginAnalysis fails while an
\* analysis is active, assimilate and endAnalysis fail when none is, beginSmoother
\* and endSmoother fail while one is; an analysis is active exactly from a
\* successful beginAnalysis until the next endAnalysis returns.
C4_CallOrderEnforced ==
    [][ /\ (updateActive /\ lastCall'.op \in {"beginAnalysis", "beginSmoother", "endSmoother"})
            => (lastCall'.out = "assert" /\ updateActive')
        /\ (~updateActive /\ lastCall'.op \in {"assimilate", "endAnalysis"})
            => (lastCall'.out = "assert" /\ ~updateActive')
        /\ (lastCall'.op = "beginAnalysis" /\ lastCall'.out = "ok") => updateActive'
        /\ (lastCall'.op = "endAnalysis" /\ lastCall'.out = "ok") => ~updateActive'
        /\ (updateActive' # updateActive)
            => (lastCall'.out = "ok" /\ lastCall'.op = (IF updateActive THEN "endAnalysis"
                                                         ELSE "beginAnalysis"))
      ]_vars

C4_Witness ==
    /\ updateActive /\ lastCall.op = "endSmoother" /\ lastCall.out = "assert"
    /\ nAssim >= 1

\* C5: with lag = 0 and a callback set, every endAnalysis invokes the callback
\* exactly once, with the step index of the matching beginAnalysis and the
\* analysed ensemble; no other operation invokes it.
C5_FilterResultPerStep ==
    [][ (lag = 0 /\ mOnResultFn)
            => /\ (lastCall'.op = "endAnalysis" /\ lastCall'.out = "ok")
                    => /\ results' = Append(results, [k |-> nSteps, E |-> AnalysisEnsemble])
                       /\ upE' = AnalysisEnsemble
               /\ ~(lastCall'.op = "endAnalysis" /\ lastCall'.out = "ok")
                    => results' = results
      ]_vars

C5_Witness ==
    /\ lag = 0 /\ mOnResultFn /\ isLocalized /\ Returned("endAnalysis")
    /\ Len(results) = 2 /\ upHaveAssimilatedObs
    /\ results[2] = [k |-> 2, E |-> upE]

\* The product of the transforms the variant stored for domain d during the
\* first m ensembleTransform calls of the current step, in call order.
RECURSIVE XProduct(_, _)
XProduct(d, m) ==
    IF m = 0 THEN Identity
    ELSE IF xLog[m].d = d THEN MatMul(XProduct(d, m - 1), xLog[m].Xout)
    ELSE XProduct(d, m - 1)

\* Domain d received observations during the current step.
HasData(d) == \E i \in DOMAIN xLog : xLog[i].d = d
\* The transform the smoother holds for domain d in the current step.
AccumulatedX(d) ==
    IF d = GlobalAnalysisDomainId THEN upX ELSE Block(locX, locXLimits[d + 1], N)
\* The domains with state variables: the global one, or the non-empty local ones.
StateDomains ==
    IF isLocalized THEN {d \in 0..(locNumDomains - 1) : getLocalSize(locSSP, d) > 0}
    ELSE {GlobalAnalysisDomainId}

\* A cached ensemble Ej after each of the first m local domains that received
\* observations has been multiplied by the product of its transforms.
RECURSIVE WithLocalProducts(_, _)
WithLocalProducts(Ej, m) ==
    IF m = 0 THEN Ej
    ELSE LET P == WithLocalProducts(Ej, m - 1)
             start == locStateLimits[m][1]
             nloc == locStateLimits[m][2]
         IN  IF nloc > 0 /\ HasData(m - 1)
             THEN SetBlock(P, start, MatMul(Block(P, start, nloc),
                                            XProduct(m - 1, Len(xLog))))
             ELSE P

WithProducts(Ej) ==
    IF isLocalized THEN WithLocalProducts(Ej, locNumDomains)
    ELSE IF HasData(GlobalAnalysisDomainId)
    THEN MatMul(Ej, XProduct(GlobalAnalysisDomainId, Len(xLog)))
    ELSE Ej

\* The transform held for every domain that received observations is the
\* product of the transforms of its assimilate calls.
AccumulatesProduct ==
    (lag >= 1 /\ updateActive /\ Returned("assimilate"))
        => \A d \in StateDomains :
              HasData(d) => AccumulatedX(d) = XProduct(d, Len(xLog))

\* endAnalysis multiplies every record it keeps in the cache by that product
\* (forgetting factor 1).
RecursionAppliesProduct ==
    (lag >= 1 /\ smForgetFactor = ROne /\ lastCall'.op = "endAnalysis"
              /\ lastCall'.out = "ok")
        => \A j \in DOMAIN ksSteps :
              (j > Len(ksSteps) - lag /\ ksSteps[j].E \in DOMAIN entries
                                      /\ ksSteps[j].E \in DOMAIN entries')
                  => entries'[ksSteps[j].E] = WithProducts(entries[ksSteps[j].E])

\* C6: with lag >= 1, after m >= 1 assimilate calls that delivered observations
\* for a domain within one analysis step, the transform accumulated for that
\* domain is X1 * X2 * ... * Xm in call order, and this product is what the
\* backward recursion applies to the cached history.
C6_TransformsCompose == []AccumulatesProduct /\ [][RecursionAppliesProduct]_vars

\* C7: ensembleTransform leaves E * X in E and that same X in Xout: every
\* transform the variant stored turns the ensemble it was given into the
\* ensemble it left.
C7_XoutIsAppliedTransform ==
    \A i \in DOMAIN xLog : xLog[i].Ea = MatMul(xLog[i].E, xLog[i].Xout)

\* C8: endSmoother reports the most recent record as it is stored in the cache,
\* not multiplied by any transform; for the last analysed step that is the
\* analysis ensemble its endAnalysis left.
C8_LatestEmittedUnmultiplied ==
    [][ (lag >= 1 /\ mOnResultFn /\ Len(ksSteps) > 0
              /\ lastCall'.op = "endSmoother" /\ lastCall'.out = "ok")
            => LET last == ksSteps[Len(ksSteps)]
                   stored == entries[last.E]
                   E == IF isLocalized THEN packEnsemble(stored, upE) ELSE stored
               IN  /\ Len(results') > Len(results)
                   /\ results'[Len(results) + 1] = [k |-> last.k, E |-> E]
                   /\ nSteps >= 1 => (last.k = upK /\ E = upE)
      ]_vars

C8_Witness ==
    /\ lag = 2 /\ mOnResultFn /\ nSteps = 2 /\ Returned("endSmoother")
    /\ upHaveX /\ xLog # <<>>
    /\ \E i \in DOMAIN results : results[i] = [k |-> 2, E |-> upE]

\* C9: in localized mode no ensembleTransform is called, and no transform slot
\* written, for a local domain of size 0.
C9_EmptyDomainsSkipped ==
    isLocalized => \A i \in DOMAIN xLog : getLocalSize(locSSP, xLog[i].d) > 0


(***************************************************************************)
(* Properties of the grid partitioning.                                    *)
(***************************************************************************)
\* The global rows (1-based) of local domain d (0-based).
GridRows(d) ==
    UNION { (rg[1] + 1)..rg[2] :
            rg \in {forEachBlockStateRange(gDomains[d + 1].block, gNumVarsPerCell, gShape)[t] :
                    t \in 1..Len(forEachBlockStateRange(gDomains[d + 1].block,
                                                        gNumVarsPerCell, gShape))} }
GridDomainIds == 0..(Len(gDomains) - 1)

\* C10: getLocal for every domain followed by putLocal for every domain into a
\* zero-initialized buffer reconstructs the global ensemble: every global row
\* is read by exactly one domain and written back to the same row.
C10_GridRoundTrip ==
    \* the domains, which never change, partition the global rows
    /\ gFetched = {} =>
          \A r \in DOMAIN gXg : Cardinality({d \in GridDomainIds : r \in GridRows(d)}) = 1
    /\ \A d \in GridDomainIds : \A rows \in {GridRows(d)} :
          \* getLocal has read exactly the rows of the domain
          /\ d \in gFetched =>
                /\ Len(gLocals[d + 1]) = Cardinality(rows)
                /\ {gLocals[d + 1][i] : i \in DOMAIN gLocals[d + 1]} = {gXg[r] : r \in rows}
          \* putLocal has written them back to the same rows and to no other
          /\ \A r \in rows :
                gXout[r] = IF d \in gPut THEN gXg[r] ELSE [c \in 1..N |-> 0]
    /\ gPut = GridDomainIds => gXout = gXg

C10_Witness ==
    /\ gShape = <<3, 2>> /\ gBlockSize = 2 /\ gNumVarsPerCell = 2
    /\ Len(gDomains) = 2
    /\ gPut = GridDomainIds
    /\ gXout = gXg

(***************************************************************************)
(* Properties of the ESTKS inflation.                                      *)
(***************************************************************************)
\* C11: in every analysis step ESTKS uses rho = 1 - (inflation - 1) for the
\* inflation factor configured on the smoother; rho = 1 when the factor is 1.
C11_RhoFollowsInflation ==
    (variant = "ESTKS" /\ updateActive)
        => ESTKS_rho(mInflation) = RSub(ROne, RSub(covInflation, ROne))


(***************************************************************************)
(* A MemoryArrayCache used on its own, through the ArrayCache interface.   *)
(* handleCounter and entries are MemoryArrayCache::Data; the k-th array    *)
(* put is Forecast(k), so that every stored array is a different one.      *)
(***************************************************************************)
\* Largest number of put() calls.
MaxPuts == 3
\* Callers that hold the arrays get() and pop() hand out.
CacheCallers == {1, 2}
\* Handles passed by callers: NullHandle, handles put() returns, one it never does.
HandleInputs == NullHandle..MaxPuts

\* remove(): "ENDAS_ASSERT(handle != NullHandle)"
cacheRemoveOk(ents, handle) == handle # NullHandle

\* markDirty(): "ENDAS_ASSERT(handle != NullHandle)"
cacheMarkDirtyOk(ents, handle) == handle # NullHandle

\* clear(): "entries.clear(); handleCounter = 0;"
cacheClear(ents, counter) == [entries |-> <<>>, counter |-> 0]

\* ArrayCache_pop_m is the faulty variant that leaves the entry in the cache.
ArrayCache_pop_m(ents, handle) == [ret |-> ents[handle], entries |-> ents]
\* ArrayCache::pop(): "A = get(handle); if (A) remove(handle); return A;"
ArrayCache_pop(ents, handle) == [ret |-> ents[handle], entries |-> cacheRemove(ents, handle)]

CacheCall(op, handle, out, ret) == [op |-> op, handle |-> handle, out |-> out, ret |-> ret]

InitCache ==
    /\ SmootherInit
    /\ variant = "EnKS"
    /\ lag = 0
    /\ GridUnused
    /\ CacheUnused
    /\ KalmanUnused
    /\ CovarianceUnused
    /\ ObsManagerUnused
    /\ PipelineUnused

\* handle = cache.put(A)
CachePut ==
    /\ Len(cIssued) < MaxPuts
    /\ \E c \in {cachePut(entries, handleCounter, Forecast(Len(cIssued)))} :
        /\ entries' = c.entries
        /\ handleCounter' = c.counter
        /\ cIssued' = Append(cIssued, c.handle)
        /\ cLast' = CacheCall("put", c.handle, "ok", <<>>)
    /\ UNCHANGED <<cInvalid, cHeld>>
    /\ UNCHANGED exceptCache

\* A = cache.get(handle), the caller keeping the shared pointer.
CacheGet ==
    /\ \E who \in CacheCallers, handle \in HandleInputs :
        IF cacheGetOk(entries, handle)
        THEN /\ cHeld' = cHeld \cup {[who |-> who, handle |-> handle, A |-> entries[handle]]}
             /\ cLast' = CacheCall("get", handle, "ok", entries[handle])
        ELSE /\ cLast' = CacheCall("get", handle, "assert", <<>>)
             /\ UNCHANGED cHeld
    /\ UNCHANGED <<handleCounter, entries, cIssued, cInvalid>>
    /\ UNCHANGED exceptCache

\* A = cache.pop(handle), the caller keeping the shared pointer.
CachePop ==
    /\ \E who \in CacheCallers, handle \in HandleInputs :
        IF cacheGetOk(entries, handle)
        THEN \E p \in {ArrayCache_pop(entries, handle)} :
             /\ entries' = p.entries
             /\ cInvalid' = cInvalid \cup (DOMAIN entries \ DOMAIN p.entries)
             /\ cHeld' = cHeld \cup {[who |-> who, handle |-> handle, A |-> p.ret]}
             /\ cLast' = CacheCall("pop", handle, "ok", p.ret)
        ELSE /\ cLast' = CacheCall("pop", handle, "assert", <<>>)
             /\ UNCHANGED <<entries, cInvalid, cHeld>>
    /\ UNCHANGED <<handleCounter, cIssued>>
    /\ UNCHANGED exceptCache

\* cache.remove(handle)
CacheRemove ==
    /\ \E handle \in HandleInputs :
        IF cacheRemoveOk(entries, handle)
        THEN /\ entries' = cacheRemove(entries, handle)
             /\ cInvalid' = cInvalid \cup (DOMAIN entries \cap {handle})
             /\ cLast' = CacheCall("remove", handle, "ok", <<>>)
        ELSE /\ cLast' = CacheCall("remove", handle, "assert", <<>>)
             /\ UNCHANGED <<entries, cInvalid>>
    /\ UNCHANGED <<handleCounter, cIssued, cHeld>>
    /\ UNCHANGED exceptCache

\* cache.clear()
CacheClear ==
    /\ \E c \in {cacheClear(entries, handleCounter)} :
        /\ entries' = c.entries
        /\ handleCounter' = c.counter
    /\ cInvalid' = cInvalid \cup DOMAIN entries
    /\ cLast' = CacheCall("clear", NullHandle, "ok", <<>>)
    /\ UNCHANGED <<cIssued, cHeld>>
    /\ UNCHANGED exceptCache

\* cache.markDirty(handle)
CacheMarkDirty ==
    /\ \E handle \in HandleInputs :
        cLast' = CacheCall("markDirty", handle,
                           IF cacheMarkDirtyOk(entries, handle) THEN "ok" ELSE "assert", <<>>)
    /\ UNCHANGED <<handleCounter, entries, cIssued, cInvalid, cHeld>>
    /\ UNCHANGED exceptCache

\* A caller lets go of a shared pointer it got from get() or pop().
CacheRelease ==
    /\ \E x \in cHeld : cHeld' = cHeld \ {x}
    /\ UNCHANGED <<handleCounter, entries, cIssued, cInvalid, cLast>>
    /\ UNCHANGED exceptCache

NextCache ==
    \/ CachePut
    \/ CacheGet
    \/ CachePop
    \/ CacheRemove
    \/ CacheClear
    \/ CacheMarkDirty
    \/ CacheRelease

SpecCache == InitCache /\ [][NextCache]_vars

(***************************************************************************)
(* Properties of the array cache.                                          *)
(***************************************************************************)
\* C12: get, pop, remove and markDirty called with a handle that is not live
\* (never issued, removed, or invalidated by clear) fail, and leave the cache
\* contents as they were.
C12_DeadHandleFails ==
    [][(cLast' # cLast
        /\ cLast'.op \in {"get", "pop", "remove", "markDirty"}
        /\ cLast'.handle \notin DOMAIN entries)
           => (cLast'.out = "assert" /\ entries' = entries)]_vars


\* C13: the handles put() returns are strictly increasing over the lifetime of
\* the cache, and a handle invalidated by remove, pop or clear is never live
\* again (it is not returned by a later put and resolves to no later array).
C13_HandlesNeverReused ==
    /\ \A i, j \in DOMAIN cIssued : i < j => cIssued[i] < cIssued[j]
    /\ \A h \in cInvalid : h \notin DOMAIN entries


\* pop(h) on a live handle returns the array stored under h and takes exactly h
\* out of the cache.
PopTakesExactlyOne ==
    (cLast' # cLast /\ cLast'.op = "pop" /\ cLast'.handle \in DOMAIN entries)
        => /\ cLast'.out = "ok"
           /\ cLast'.ret = entries[cLast'.handle]
           /\ DOMAIN entries' = DOMAIN entries \ {cLast'.handle}
           /\ \A g \in DOMAIN entries' : entries'[g] = entries[g]

\* get(h) or pop(h) right after a successful pop(h) fails.
GetAfterPopFails ==
    (cLast' # cLast /\ cLast.op = "pop" /\ cLast.out = "ok"
     /\ cLast'.op \in {"get", "pop"} /\ cLast'.handle = cLast.handle)
        => cLast'.out = "assert"

\* C14: pop(h) on a live handle returns the entry stored under h and invalidates
\* exactly h: a following get(h) or pop(h) fails, every other live handle still
\* resolves to its own array.
C14_PopInvalidatesExactlyOne == [][PopTakesExactlyOne /\ GetAfterPopFails]_vars

\* A pop(h) has just handed out the array of h while another handle is live.
C14_Witness ==
    /\ cLast.op = "pop"
    /\ cLast.out = "ok"
    /\ cLast.handle \notin DOMAIN entries
    /\ \E x \in cHeld : x.handle = cLast.handle /\ x.A = cLast.ret
    /\ \E g \in DOMAIN entries : g # cLast.handle


\* C15: get(h) is an exclusive checkout: while a caller holds the array that
\* get(h) returned, no second get(h) or pop(h) hands out the same array, so no
\* array is held by two callers at once.
C15_ExclusiveCheckout ==
    \A x, y \in cHeld : x.A = y.A => x.who = y.who


(***************************************************************************)
(* KalmanSmoother (the full-rank filter and smoother) and its cache.       *)
(* An array is named by the quantity it holds, [q |-> "xa", k |-> 1]: the  *)
(* linear algebra of the update and of the recursion is left out, the      *)
(* calls made on the cache are not.                                        *)
(***************************************************************************)
Arr(q, k) == [q |-> q, k |-> k]

\* smXf and smPf have no initialiser in KalmanSmoother::Data (nor has upK, which
\* beginAnalysis sets before anything reads it).
IndeterminateHandle == {NullHandle, 0}

\* Data::pushSmootherStep
pushSmootherStep(steps, k, xf, Pf, xa, Pa) ==
    Append(steps, [k |-> k, xf |-> xf, Pf |-> Pf, xa |-> xa, Pa |-> Pa])

\* KalmanSmoother::KalmanSmoother(model, lag, cache = nullptr)
InitKalman ==
    /\ SmootherInit
    /\ variant = "EnKS"
    /\ lag = 0
    /\ GridUnused
    /\ CacheUnused
    /\ CovarianceUnused
    /\ ObsManagerUnused
    /\ PipelineUnused
    /\ kfLag \in 0..MaxLag
    /\ kfOnResultFn \in BOOLEAN
    /\ kfUpdateActive = FALSE
    /\ kfUpX = <<>>
    /\ kfUpP = <<>>
    /\ kfUpK = 0
    /\ kfSmXf \in IndeterminateHandle
    /\ kfSmPf \in IndeterminateHandle
    /\ kfSteps = <<>>
    /\ kfCounter = 0
    /\ kfEntries = <<>>
    /\ kfResults = <<>>
    /\ kfLast = [op |-> "construct", out |-> "ok"]
    /\ kfBegun = FALSE
    /\ kfN = 0

\* KalmanSmoother::beginSmoother(x0, P0, k0), called once, with k0 = 0
KalmanBeginSmoother ==
    /\ ~kfBegun
    /\ kfBegun' = TRUE
    /\ IF kfUpdateActive
       THEN /\ kfLast' = [op |-> "beginSmoother", out |-> "assert"]
            /\ UNCHANGED <<kfUpX, kfUpP, kfSteps, kfCounter, kfEntries>>
       ELSE /\ kfLast' = [op |-> "beginSmoother", out |-> "ok"]
            /\ IF kfLag = 0
               THEN UNCHANGED <<kfUpX, kfUpP, kfSteps, kfCounter, kfEntries>>
               ELSE \E c1 \in {cachePut(kfEntries, kfCounter, Arr("x0", 0))} :
                    \E c2 \in {cachePut(c1.entries, c1.counter, Arr("P0", 0))} :
                       /\ kfUpX' = <<>>
                       /\ kfUpP' = <<>>
                       /\ kfEntries' = c2.entries
                       /\ kfCounter' = c2.counter
                       /\ kfSteps' = pushSmootherStep(<<>>, 0, NullHandle, NullHandle,
                                                      c1.handle, c2.handle)
    /\ UNCHANGED <<kfLag, kfOnResultFn, kfUpdateActive, kfUpK, kfSmXf, kfSmPf,
                   kfResults, kfN>>
    /\ UNCHANGED exceptKalman

\* KalmanSmoother::forecast(x, P, Q, k, dt): propagates the caller's x and P.
KalmanForecast ==
    /\ kfLast' = [op |-> "forecast",
                  out |-> IF kfUpdateActive THEN "assert" ELSE "ok"]
    /\ UNCHANGED <<kfLag, kfOnResultFn, kfUpdateActive, kfUpX, kfUpP, kfUpK, kfSmXf,
                   kfSmPf, kfSteps, kfCounter, kfEntries, kfResults, kfBegun, kfN>>
    /\ UNCHANGED exceptKalman

\* KalmanSmoother::beginAnalysis(x, P, k), for step k = kfN + 1
KalmanBeginAnalysis ==
    /\ kfN < MaxSteps
    /\ IF kfUpdateActive
       THEN /\ kfLast' = [op |-> "beginAnalysis", out |-> "assert"]
            /\ UNCHANGED <<kfUpdateActive, kfUpX, kfUpP, kfUpK, kfSmXf, kfSmPf,
                           kfCounter, kfEntries, kfN>>
       ELSE \E k \in {kfN + 1} :
            \E c1 \in {cachePut(kfEntries, kfCounter, Arr("xf", k))} :
            \E c2 \in {cachePut(c1.entries, c1.counter, Arr("Pf", k))} :
               /\ kfUpX' = Arr("xf", k)
               /\ kfUpP' = Arr("Pf", k)
               /\ kfUpK' = k
               /\ kfSmXf' = c1.handle
               /\ kfSmPf' = c2.handle
               /\ kfEntries' = c2.entries
               /\ kfCounter' = c2.counter
               /\ kfUpdateActive' = TRUE
               /\ kfN' = k
               /\ kfLast' = [op |-> "beginAnalysis", out |-> "ok"]
    /\ UNCHANGED <<kfLag, kfOnResultFn, kfSteps, kfResults, kfBegun>>
    /\ UNCHANGED exceptKalman

\* KalmanSmoother::assimilate(z, H, R) with an empty or a non-empty z
KalmanAssimilate ==
    /\ \E zsize \in {0, 1} :
        IF ~kfUpdateActive
        THEN /\ kfLast' = [op |-> "assimilate", out |-> "assert"]
             /\ UNCHANGED <<kfUpX, kfUpP>>
        ELSE /\ kfLast' = [op |-> "assimilate", out |-> "ok"]
             /\ IF zsize = 0
                THEN UNCHANGED <<kfUpX, kfUpP>>
                ELSE /\ kfUpX' = Arr("xa", kfUpK)
                     /\ kfUpP' = Arr("Pa", kfUpK)
    /\ UNCHANGED <<kfLag, kfOnResultFn, kfUpdateActive, kfUpK, kfSmXf, kfSmPf, kfSteps,
                   kfCounter, kfEntries, kfResults, kfBegun, kfN>>
    /\ UNCHANGED exceptKalman

\* KalmanSmoother::endAnalysis()
KalmanEndAnalysis ==
    /\ IF ~kfUpdateActive
       THEN /\ kfLast' = [op |-> "endAnalysis", out |-> "assert"]
            /\ UNCHANGED <<kfUpdateActive, kfSteps, kfCounter, kfEntries, kfResults>>
       ELSE /\ kfLast' = [op |-> "endAnalysis", out |-> "ok"]
            /\ kfUpdateActive' = FALSE
            /\ IF kfLag = 0
               THEN /\ kfResults' = IF kfOnResultFn
                                    THEN Append(kfResults, [k |-> kfUpK, x |-> kfUpX])
                                    ELSE kfResults
                    /\ UNCHANGED <<kfSteps, kfCounter, kfEntries>>
               ELSE \E c1 \in {cachePut(kfEntries, kfCounter, kfUpX)} :
                    \E c2 \in {cachePut(c1.entries, c1.counter, kfUpP)} :
                       /\ kfEntries' = c2.entries
                       /\ kfCounter' = c2.counter
                       /\ kfSteps' = pushSmootherStep(kfSteps, kfUpK, kfSmXf, kfSmPf,
                                                      c1.handle, c2.handle)
                       /\ UNCHANGED kfResults
    /\ UNCHANGED <<kfLag, kfOnResultFn, kfUpX, kfUpP, kfUpK, kfSmXf, kfSmPf, kfBegun, kfN>>
    /\ UNCHANGED exceptKalman

\* The backward recursion of endSmoother: "while (mData->ksSteps.size() > 0)".
\* st is [steps, entries, results, sm_k1, ok].
RECURSIVE kalmanRecursion(_)
kalmanRecursion(st) ==
    IF st.steps = <<>> \/ ~st.ok THEN st
    ELSE LET sm_k == st.steps[Len(st.steps)]
             popped == {st.sm_k1.xf, st.sm_k1.Pf, sm_k.xa, sm_k.Pa}
         IN IF \E h \in popped : ~cacheGetOk(st.entries, h)
            THEN [st EXCEPT !.ok = FALSE]
            ELSE kalmanRecursion(
                   [steps |-> SubSeq(st.steps, 1, Len(st.steps) - 1),
                    entries |-> [h \in DOMAIN st.entries \ popped |-> st.entries[h]],
                    results |-> Append(st.results,
                                       [k |-> sm_k.k, x |-> Arr("xs", sm_k.k)]),
                    sm_k1 |-> sm_k,
                    ok |-> TRUE])

\* KalmanSmoother::endSmoother()
KalmanEndSmoother ==
    /\ IF kfUpdateActive
       THEN /\ kfLast' = [op |-> "endSmoother", out |-> "assert"]
            /\ UNCHANGED <<kfSteps, kfEntries, kfResults>>
       ELSE IF kfLag = 0 \/ kfSteps = <<>>
       THEN /\ kfLast' = [op |-> "endSmoother", out |-> "ok"]
            /\ UNCHANGED <<kfSteps, kfEntries, kfResults>>
       ELSE IF ~kfOnResultFn
       THEN /\ kfLast' = [op |-> "endSmoother", out |-> "assert"]
            /\ UNCHANGED <<kfSteps, kfEntries, kfResults>>
       ELSE \E sm_last \in {kfSteps[Len(kfSteps)]} :
            IF ~cacheGetOk(kfEntries, sm_last.xa) \/ ~cacheGetOk(kfEntries, sm_last.Pa)
            THEN /\ kfLast' = [op |-> "endSmoother", out |-> "assert"]
                 /\ UNCHANGED <<kfSteps, kfEntries, kfResults>>
            ELSE \E st \in {kalmanRecursion(
                     [steps |-> SubSeq(kfSteps, 1, Len(kfSteps) - 1),
                      entries |-> cacheRemove(cacheRemove(kfEntries, sm_last.xa),
                                              sm_last.Pa),
                      results |-> Append(kfResults,
                                         [k |-> sm_last.k,
                                          x |-> kfEntries[sm_last.xa]]),
                      sm_k1 |-> sm_last,
                      ok |-> TRUE])} :
                 /\ kfLast' = [op |-> "endSmoother",
                               out |-> IF st.ok THEN "ok" ELSE "assert"]
                 /\ kfSteps' = st.steps
                 /\ kfEntries' = st.entries
                 /\ kfResults' = st.results
    /\ UNCHANGED <<kfLag, kfOnResultFn, kfUpdateActive, kfUpX, kfUpP, kfUpK, kfSmXf,
                   kfSmPf, kfCounter, kfBegun, kfN>>
    /\ UNCHANGED exceptKalman

NextKalman ==
    \/ KalmanBeginSmoother
    \/ KalmanForecast
    \/ KalmanBeginAnalysis
    \/ KalmanAssimilate
    \/ KalmanEndAnalysis
    \/ KalmanEndSmoother

SpecKalman == InitKalman /\ [][NextKalman]_vars

\* C16: with lag 0 array caching is not used: whatever calls are made on an
\* EnsembleKalmanSmoother or on a KalmanSmoother, nothing is put into its cache
\* and the cache stays empty.
C16_NoCacheAtLagZero ==
    /\ lag = 0 => (entries = <<>> /\ handleCounter = 0)
    /\ kfLag = 0 => (kfEntries = <<>> /\ kfCounter = 0)


(***************************************************************************)
(* DiagonalCovariance.  An Array is a sequence of rationals; the object is *)
(* [mSize, mDiag, mInvDiag, mInitWithInverse].                             *)
(***************************************************************************)
\* Largest length of the array a DiagonalCovariance is constructed from.
MaxDiagLen == 3
DiagValues == {Half, ROne, RInt(2)}
DiagArrays == UNION {[1..len -> DiagValues] : len \in 1..MaxDiagLen}
\* IndexArray arguments of subset(): one or two different indices.
IndexLists ==
    {<<i>> : i \in 0..(MaxDiagLen - 1)}
        \cup {idx \in (0..(MaxDiagLen - 1)) \X (0..(MaxDiagLen - 1)) : idx[1] # idx[2]}
\* What a read past the end of an array may yield.
IndeterminateValues == {RZero, ROne}

\* Array::inverse(): the coefficient-wise reciprocal
ArrayInverse(A) == [i \in DOMAIN A |-> Rat(A[i][2], A[i][1])]

\* select(A, indices, out): "for (index_t i : indices) out(ii++) = A(i);"
select(A, indices) == [ii \in DOMAIN indices |-> A[indices[ii] + 1]]

\* select() reads inside A only.
selectInBounds(A, indices) == \A ii \in DOMAIN indices : indices[ii] < Len(A)

\* DiagonalCovariance::DiagonalCovariance(diag, isInverse):
\* "if (isInverse) mInvDiag = mDiag; else mDiag = diag;"
DiagonalCovariance(diag, isInverse) ==
    [mSize |-> Len(diag),
     mDiag |-> IF isInverse THEN <<>> ELSE diag,
     mInvDiag |-> <<>>,
     mInitWithInverse |-> isInverse]

\* DiagonalCovariance::diagonal(): the object after the call; mDiag is returned
DiagonalCovariance_diagonal(this) ==
    IF Len(this.mDiag) = 0
    THEN [this EXCEPT !.mDiag = ArrayInverse(this.mInvDiag)]
    ELSE this

\* DiagonalCovariance::inverseDiagonal(): the object after the call; mInvDiag
\* is returned
DiagonalCovariance_inverseDiagonal(this) ==
    IF Len(this.mInvDiag) = 0
    THEN [this EXCEPT !.mInvDiag = ArrayInverse(this.mDiag)]
    ELSE this

\* DiagonalCovariance::subset(indices): the arrays select() may produce; a read
\* past the end of the source array yields any value.
DiagonalCovariance_subsetArrays(this, indices) ==
    LET A == IF this.mInitWithInverse THEN this.mInvDiag ELSE this.mDiag
    IN  IF selectInBounds(A, indices)
        THEN {select(A, indices)}
        ELSE [DOMAIN indices -> IndeterminateValues]

CovCall(op, out, ret) == [op |-> op, out |-> out, ret |-> ret]

\* R = DiagonalCovariance(a, isInverse)
InitCovariance ==
    /\ SmootherInit
    /\ variant = "EnKS"
    /\ lag = 0
    /\ GridUnused
    /\ CacheUnused
    /\ KalmanUnused
    /\ ObsManagerUnused
    /\ PipelineUnused
    /\ dcArg \in DiagArrays
    /\ \E isInverse \in BOOLEAN : dcThis = DiagonalCovariance(dcArg, isInverse)
    /\ dcLast = CovCall("construct", "ok", <<>>)

\* R.diagonal()
CovDiagonal ==
    /\ dcThis' = DiagonalCovariance_diagonal(dcThis)
    /\ dcLast' = CovCall("diagonal", "ok", dcThis'.mDiag)
    /\ UNCHANGED dcArg
    /\ UNCHANGED exceptCovariance

\* R.inverseDiagonal()
CovInverseDiagonal ==
    /\ dcThis' = DiagonalCovariance_inverseDiagonal(dcThis)
    /\ dcLast' = CovCall("inverseDiagonal", "ok", dcThis'.mInvDiag)
    /\ UNCHANGED dcArg
    /\ UNCHANGED exceptCovariance

\* R.subset(indices) with indices below size(); ret is the array the new
\* DiagonalCovariance is constructed from, and whether as inverse.
CovSubset ==
    /\ \E indices \in IndexLists :
        /\ \A ii \in DOMAIN indices : indices[ii] < dcThis.mSize
        /\ \/ \E diagSub \in DiagonalCovariance_subsetArrays(dcThis, indices) :
                dcLast' = [op |-> "subset", out |-> "ok", ret |-> diagSub,
                           indices |-> indices]
           \/ /\ ~selectInBounds(IF dcThis.mInitWithInverse THEN dcThis.mInvDiag
                                     ELSE dcThis.mDiag, indices)
              /\ dcLast' = [op |-> "subset", out |-> "crash", ret |-> <<>>,
                            indices |-> indices]
    /\ UNCHANGED <<dcThis, dcArg>>
    /\ UNCHANGED exceptCovariance

NextCovariance ==
    \/ CovDiagonal
    \/ CovInverseDiagonal
    \/ CovSubset

SpecCovariance == InitCovariance /\ [][NextCovariance]_vars

\* C18: a DiagonalCovariance constructed from a with isInverse = true returns a
\* from inverseDiagonal(), the reciprocal of a from diagonal(), and subset()
\* selects from a; constructed with isInverse = false from d it returns d from
\* diagonal() and the reciprocal of d from inverseDiagonal(); the arrays
\* returned have length size().
C18_DiagonalAndInverse ==
    /\ dcLast.op = "diagonal" =>
          /\ dcLast.ret = IF dcThis.mInitWithInverse THEN ArrayInverse(dcArg) ELSE dcArg
          /\ Len(dcLast.ret) = dcThis.mSize
    /\ dcLast.op = "inverseDiagonal" =>
          /\ dcLast.ret = IF dcThis.mInitWithInverse THEN dcArg ELSE ArrayInverse(dcArg)
          /\ Len(dcLast.ret) = dcThis.mSize
    /\ dcLast.op = "subset" =>
          /\ dcLast.out = "ok"
          /\ dcLast.ret = select(dcArg, dcLast.indices)


(***************************************************************************)
(* SimpleObservationManager.  Observation i is at the integer coordinate   *)
(* obsCoords[i] of a one-dimensional space whose local domain d lies at    *)
(* coordinate d.  H is [isMatrix, rows], R a DiagonalCovariance.           *)
(***************************************************************************)
\* Largest number of observations the manager is constructed with.
MaxObs == 2
\* Largest number of local domains of the partitioner passed to beginFetch.
MaxOmDomains == 3
\* Largest number of fetchObservations() calls after one beginFetch.
MaxFetches == 5

\* The taper functions passed to beginFetch: [kind, L], or "null".
TaperFns == [kind : {"null", "NoTaper", "LinearTaper"}, L : {0, 1}]
\* The partitioners passed to beginFetch: nullptr, or one of so many domains.
OmPartitioners == [isNull : {TRUE}, numLocalDomains : {0}]
                      \cup [isNull : {FALSE}, numLocalDomains : 0..MaxOmDomains]
\* A null shared_ptr.
NullPtr == [isNull |-> TRUE]
\* TaperFn::supportRange()
supportRange(taperFn) == taperFn.L

\* PartitionPointQuery::rangeQuery(domain, range, out, distances): the indices
\* of the points within range of the domain, in index order, and the distance
\* of each.
RECURSIVE rangeQuery(_, _, _, _)
rangeQuery(coords, domain, range, i) ==
    IF i = Len(coords) THEN [indices |-> <<>>, distances |-> <<>>]
    ELSE LET rest == rangeQuery(coords, domain, range, i + 1)
             dist == Abs(coords[i + 1] - domain)
         IN  IF dist <= range
             THEN [indices |-> <<i>> \o rest.indices,
                   distances |-> <<dist>> \o rest.distances]
             ELSE rest

\* LinearTaper::taper(x, d, out): "r = d / L; (r < 1) ? x * (1.0 - r) : 0",
\* and NoTaper::taper, which copies x.
taper(taperFn, x, d) ==
    IF taperFn.kind = "NoTaper" THEN x
    ELSE [i \in DOMAIN x |->
            IF d[i] < taperFn.L
            THEN RMul(x[i], RSub(ROne, Rat(d[i], taperFn.L)))
            ELSE RZero]

\* ObservationOperator::subset(indices): the selected rows of a matrix
\* operator, nullptr for any other operator.
ObservationOperator_subset(H, indices) ==
    IF H.isMatrix THEN [isMatrix |-> TRUE, rows |-> select(H.rows, indices)]
    ELSE NullPtr

\* "int domain" has no initialiser in ObservationData().
IndeterminateDomain == {GlobalAnalysisDomainId, 0}

\* ObservationData(): the empty entry
EmptyObservationData(domain) == [domain |-> domain, obs |-> <<>>, H |-> NullPtr, R |-> NullPtr]

\* ObservationData::empty()
ObservationData_empty(data) == Len(data.obs) = 0


\* "doCovTapering = dynamic_cast<const NoTaper*>(taperFn) == nullptr &&
\*  taperFn->supportRange() > 0"
doCovTapering(taperFn) == taperFn.kind # "NoTaper" /\ supportRange(taperFn) > 0

\* fetchObservations(), local analysis, for a domain d with observations: what
\* the call may end in, as [out, ret].
fetchLocalEntry(d, obs, H, R, taperFn, q) ==
    LET Hlocal == ObservationOperator_subset(H, q.indices)
        source == IF R.mInitWithInverse THEN R.mInvDiag ELSE R.mDiag
        tapered(Rlocal) ==
            LET RdiagInv == DiagonalCovariance_inverseDiagonal(Rlocal).mInvDiag
            IN  IF Len(RdiagInv) # Len(q.distances)
                THEN [out |-> "assert", ret |-> <<>>]
                ELSE [out |-> "ok",
                      ret |-> [domain |-> d, obs |-> select(obs, q.indices), H |-> Hlocal,
                               R |-> DiagonalCovariance(taper(taperFn, RdiagInv, q.distances),
                                                        TRUE)]]
        entry(diagSub) ==
            LET Rlocal == DiagonalCovariance(diagSub, R.mInitWithInverse)
            IN  IF doCovTapering(taperFn)
                THEN tapered(Rlocal)
                ELSE [out |-> "ok",
                      ret |-> [domain |-> d, obs |-> select(obs, q.indices), H |-> Hlocal,
                               R |-> Rlocal]]
    IN  IF Hlocal = NullPtr
        THEN {[out |-> "assert", ret |-> <<>>]}
        ELSE {entry(diagSub) : diagSub \in DiagonalCovariance_subsetArrays(R, q.indices)}
                \cup (IF selectInBounds(source, q.indices) THEN {}
                      ELSE {[out |-> "crash", ret |-> <<>>]})

\* hasObservations_m is the faulty variant that returns an entry for every domain.
hasObservations_m(q) == TRUE
\* "if (obsIndices.size() > 0)"
hasObservations(q) == Len(q.indices) > 0

\* "while (mData->currentDomain != mData->numDomains)": what the call may end
\* in, as [out, ret, currentDomain].
RECURSIVE fetchLocal(_, _, _, _, _, _, _)
fetchLocal(currentDomain, numDomains, obs, H, R, taperFn, coords) ==
    IF currentDomain = numDomains
    THEN {[out |-> "ok", ret |-> EmptyObservationData(domain),
           currentDomain |-> currentDomain] : domain \in IndeterminateDomain}
    ELSE LET q == rangeQuery(coords, currentDomain, supportRange(taperFn), 0)
         IN  IF hasObservations(q)
             THEN {[out |-> e.out, ret |-> e.ret, currentDomain |-> currentDomain + 1] :
                      e \in fetchLocalEntry(currentDomain, obs, H, R, taperFn, q)}
             ELSE fetchLocal(currentDomain + 1, numDomains, obs, H, R, taperFn, coords)

\* SimpleObservationManager::SimpleObservationManager(obs, obsCoords, H, R)
InitObsManager ==
    /\ SmootherInit
    /\ variant = "EnKS"
    /\ lag = 0
    /\ GridUnused
    /\ CacheUnused
    /\ KalmanUnused
    /\ CovarianceUnused
    /\ PipelineUnused
    /\ \E nobs \in 0..MaxObs :
        /\ omObs = [i \in 1..nobs |-> RInt(i)]
        /\ omObsCoords \in [1..nobs -> 0..(MaxOmDomains - 1)] \cup {<<>>}
        /\ \E isMatrix \in BOOLEAN :
              omH = [isMatrix |-> isMatrix, rows |-> [i \in 1..nobs |-> i]]
        /\ \E isInverse \in BOOLEAN :
              omR = DiagonalCovariance(IF nobs = 0 THEN <<ROne>>
                                       ELSE [i \in 1..nobs |-> Rat(1, i)], isInverse)
    /\ omPartitioner = [isNull |-> TRUE, numLocalDomains |-> 0]
    /\ omTaperFn = [kind |-> "null", L |-> 0]
    /\ omObsQuery = <<>>
    /\ omCurrentDomain = 0
    /\ omNumDomains = 0
    /\ omPhase = "constructed"
    /\ omReturned = <<>>
    /\ omLast = [op |-> "construct", out |-> "ok"]

\* beginFetch(k, partitioner, taperFn), called once
ObsBeginFetch ==
    /\ omPhase = "constructed"
    /\ \E partitioner \in OmPartitioners, taperFn \in TaperFns :
        /\ omPartitioner' = partitioner
        /\ omTaperFn' = taperFn
        /\ omCurrentDomain' = 0
        /\ omNumDomains' = IF ~partitioner.isNull THEN partitioner.numLocalDomains ELSE 1
        /\ IF ~(omNumDomains' >= 1)
           THEN /\ omPhase' = "failed"
                /\ omLast' = [op |-> "beginFetch", out |-> "assert"]
                /\ UNCHANGED <<omObsCoords, omObsQuery>>
           ELSE IF omNumDomains' > 1
           THEN IF ~(Len(omObsCoords) > 0 \/ Len(omObs) = 0) \/ taperFn.kind = "null"
                THEN /\ omPhase' = "failed"
                     /\ omLast' = [op |-> "beginFetch", out |-> "assert"]
                     /\ UNCHANGED <<omObsCoords, omObsQuery>>
                ELSE /\ omObsQuery' = omObsCoords
                     /\ omObsCoords' = <<>>
                     /\ omPhase' = "fetching"
                     /\ omLast' = [op |-> "beginFetch", out |-> "ok"]
           ELSE /\ omPhase' = "fetching"
                /\ omLast' = [op |-> "beginFetch", out |-> "ok"]
                /\ UNCHANGED <<omObsCoords, omObsQuery>>
    /\ UNCHANGED <<omObs, omH, omR, omReturned>>
    /\ UNCHANGED exceptObsManager

\* fetchObservations()
ObsFetch ==
    /\ omPhase = "fetching"
    /\ Len(omReturned) < MaxFetches
    /\ IF omNumDomains = 1
       THEN /\ omReturned' = Append(omReturned, [domain |-> GlobalAnalysisDomainId,
                                                 obs |-> omObs, H |-> omH, R |-> omR])
            /\ omObs' = <<>>
            /\ omLast' = [op |-> "fetchObservations", out |-> "ok"]
            /\ UNCHANGED <<omCurrentDomain, omPhase>>
       ELSE \E e \in fetchLocal(omCurrentDomain, omNumDomains, omObs, omH, omR,
                                omTaperFn, omObsQuery) :
            /\ omCurrentDomain' = e.currentDomain
            /\ omLast' = [op |-> "fetchObservations", out |-> e.out]
            /\ IF e.out = "ok"
               THEN /\ omReturned' = Append(omReturned, e.ret)
                    /\ UNCHANGED omPhase
               ELSE /\ omPhase' = "failed"
                    /\ UNCHANGED omReturned
            /\ UNCHANGED omObs
    /\ UNCHANGED <<omObsCoords, omH, omR, omPartitioner, omTaperFn, omObsQuery, omNumDomains>>
    /\ UNCHANGED exceptObsManager

NextObsManager ==
    \/ ObsBeginFetch
    \/ ObsFetch

SpecObsManager == InitObsManager /\ [][NextObsManager]_vars


\* The observations the manager was constructed with (one per row of H).
OmAllObs == [i \in 1..Len(omH.rows) |-> RInt(i)]
\* Returned entries that are not the empty sentinel.
OmEntries == {i \in DOMAIN omReturned : ~ObservationData_empty(omReturned[i])}

\* Global analysis: everything at once, then the sentinel.
GlobalFetchProtocol ==
    /\ Len(omReturned) >= 1 =>
          /\ omReturned[1].domain = GlobalAnalysisDomainId
          /\ omReturned[1].obs = OmAllObs
    /\ \A i \in DOMAIN omReturned : i >= 2 => ObservationData_empty(omReturned[i])

\* Local analysis: one entry per domain with observations in range, in
\* increasing domain order, then the sentinel for good.
LocalFetchProtocol ==
    /\ \A i, j \in OmEntries : i < j => omReturned[i].domain < omReturned[j].domain
    /\ \A i \in OmEntries :
          LET e == omReturned[i]
          IN  /\ e.domain \in 0..(omPartitioner.numLocalDomains - 1)
              /\ \E o \in DOMAIN omObsQuery :
                    Abs(omObsQuery[o] - e.domain) <= supportRange(omTaperFn)
              /\ Len(e.obs) = Len(e.H.rows)
              /\ Len(e.obs) = e.R.mSize
    /\ \A i, j \in DOMAIN omReturned :
          (i < j /\ ObservationData_empty(omReturned[i]))
              => ObservationData_empty(omReturned[j])
    /\ (\E i \in DOMAIN omReturned : ObservationData_empty(omReturned[i]))
          => omCurrentDomain = omNumDomains

\* C17: after beginFetch, fetchObservations returns, in global mode (null
\* partitioner or one domain), all observations at once tagged
\* GlobalAnalysisDomainId and then the empty sentinel; in local mode at most one
\* entry per domain, in increasing domain index, only for domains with an
\* observation within the support range, with obs, H and R of equal size and
\* the domain index in [0, numLocalDomains), and after the last domain the
\* empty sentinel on every call.
C17_FetchProtocol ==
    omPhase \in {"fetching", "failed"} =>
        /\ (omPartitioner.isNull \/ omPartitioner.numLocalDomains = 1)
              => GlobalFetchProtocol
        /\ (~omPartitioner.isNull /\ omPartitioner.numLocalDomains > 1)
              => LocalFetchProtocol

\* Three domains: entries for domains 0 and 2 (domain 1 has no observation in
\* range), then the sentinel twice.
C17_Witness ==
    /\ omPhase = "fetching"
    /\ omNumDomains = 3
    /\ Len(omReturned) = 4
    /\ OmEntries = {1, 2}
    /\ omReturned[1].domain = 0
    /\ omReturned[2].domain = 2


(***************************************************************************)
(* AsyncJobExecutor::pipeline of SerialJobExecutor and ThreadJobExecutor.  *)
(* Jobs are 1, 2, ... in the order source produces them, 0 is nullptr; the *)
(* thread pool is a queue of tasks and one slot per worker thread.         *)
(***************************************************************************)
\* Largest number of worker threads of the pool.
MaxThreads == 2
\* Largest number of jobs source produces before it returns nullptr.
MaxSourceJobs == 3
\* Largest maxJobs argument of pipeline.
MaxMaxJobs == 2

\* source(id): job id + 1 while there are jobs, nullptr afterwards
source(id, numJobs) == IF id < numJobs THEN id + 1 ELSE 0

\* What source sees when it is called: its argument, the calling thread and
\* the job instances in existence.
SourceCall(id, thread, live) == [id |-> id, thread |-> thread, live |-> live]

\* futureReady_m is the faulty variant that does not wait for the job to finish.
futureReady_m(done, job) == TRUE
\* "future.get()" returns once the task of the job has run
futureReady(done, job) == job \in done

\* SerialJobExecutor() or ThreadJobExecutor() with setMaxThreads(), and the
\* arguments of the pipeline call to come.
InitPipeline ==
    /\ SmootherInit
    /\ variant = "EnKS"
    /\ lag = 0
    /\ GridUnused
    /\ CacheUnused
    /\ KalmanUnused
    /\ CovarianceUnused
    /\ ObsManagerUnused
    /\ ppKind \in {"serial", "thread"}
    /\ ppMaxThreads \in IF ppKind = "serial" THEN {1} ELSE 0..MaxThreads
    /\ ppMaxJobs \in 0..MaxMaxJobs
    /\ ppNumJobs \in 0..MaxSourceJobs
    /\ ppPc = "idle"
    /\ ppId = 0
    /\ ppJob = 0
    /\ ppScheduled = <<>>
    /\ ppQueue = <<>>
    /\ ppRunning = <<>>
    /\ ppDone = {}
    /\ ppRuns = [j \in 1..ppNumJobs |-> 0]
    /\ ppSunk = <<>>
    /\ ppSourceCalls = <<>>
    /\ ppLive = {}

\* pipeline(source, sink, maxJobs, flags) is entered; ThreadJobExecutor calls
\* beginJobs(flags), which resizes the pool to maxThreads.
PipelineCall ==
    /\ ppPc = "idle"
    /\ ppPc' = "source"
    /\ ppRunning' = IF ppKind = "thread" THEN [t \in 1..ppMaxThreads |-> 0] ELSE ppRunning
    /\ UNCHANGED <<ppKind, ppMaxThreads, ppMaxJobs, ppNumJobs, ppId, ppJob, ppScheduled,
                   ppQueue, ppDone, ppRuns, ppSunk, ppSourceCalls, ppLive>>
    /\ UNCHANGED exceptPipeline

\* SerialJobExecutor::pipeline, one turn of
\* "while ((job = source(id++)) != nullptr) { job->run(0); if (sink) sink(*job); }":
\* the job of the turn before is released by the assignment, after source
\* has returned.
SerialPipelineStep ==
    /\ ppKind = "serial"
    /\ ppPc = "source"
    /\ \E job \in {source(ppId, ppNumJobs)} :
        /\ ppSourceCalls' = Append(ppSourceCalls, SourceCall(ppId, "main", ppLive))
        /\ ppId' = ppId + 1
        /\ ppJob' = job
        /\ IF job # 0
           THEN /\ ppLive' = (ppLive \cup {job}) \ {ppJob}
                /\ ppRuns' = [ppRuns EXCEPT ![job] = @ + 1]
                /\ ppDone' = ppDone \cup {job}
                /\ ppSunk' = Append(ppSunk, [job |-> job, thread |-> "main"])
                /\ UNCHANGED ppPc
           ELSE /\ ppLive' = ppLive \ {ppJob}
                /\ ppPc' = "returned"
                /\ UNCHANGED <<ppRuns, ppDone, ppSunk>>
    /\ UNCHANGED <<ppKind, ppMaxThreads, ppMaxJobs, ppNumJobs, ppScheduled, ppQueue,
                   ppRunning>>
    /\ UNCHANGED exceptPipeline

\* ThreadJobExecutor::pipeline, one turn of
\* "while ((job = source(id++)) != nullptr) { this->enqueue(move(job)); }"
ThreadPipelineSource ==
    /\ ppKind = "thread"
    /\ ppPc = "source"
    /\ \E job \in {source(ppId, ppNumJobs)} :
        /\ ppSourceCalls' = Append(ppSourceCalls, SourceCall(ppId, "main", ppLive))
        /\ ppId' = ppId + 1
        /\ IF job = 0
           THEN /\ ppPc' = "wait"
                /\ UNCHANGED <<ppScheduled, ppQueue, ppLive>>
           ELSE IF ~(ppMaxThreads > 0)
           THEN /\ ppPc' = "failed"
                /\ UNCHANGED <<ppScheduled, ppQueue, ppLive>>
           ELSE /\ ppQueue' = Append(ppQueue, job)
                /\ ppScheduled' = Append(ppScheduled, job)
                /\ ppLive' = ppLive \cup {job}
                /\ UNCHANGED ppPc
    /\ UNCHANGED <<ppKind, ppMaxThreads, ppMaxJobs, ppNumJobs, ppJob, ppRunning, ppDone,
                   ppRuns, ppSunk>>
    /\ UNCHANGED exceptPipeline

\* An idle worker thread takes the oldest task: JobWrapper::operator() calls
\* job->run(id).
WorkerStart ==
    /\ ppQueue # <<>>
    /\ \E t \in DOMAIN ppRunning :
        /\ ppRunning[t] = 0
        /\ ppRunning' = [ppRunning EXCEPT ![t] = Head(ppQueue)]
        /\ ppRuns' = [ppRuns EXCEPT ![Head(ppQueue)] = @ + 1]
    /\ ppQueue' = Tail(ppQueue)
    /\ UNCHANGED <<ppKind, ppMaxThreads, ppMaxJobs, ppNumJobs, ppPc, ppId, ppJob,
                   ppScheduled, ppDone, ppSunk, ppSourceCalls, ppLive>>
    /\ UNCHANGED exceptPipeline

\* run() returns on a worker thread: "return move(job);" makes the future ready.
WorkerFinish ==
    /\ \E t \in DOMAIN ppRunning :
        /\ ppRunning[t] # 0
        /\ ppDone' = ppDone \cup {ppRunning[t]}
        /\ ppRunning' = [ppRunning EXCEPT ![t] = 0]
    /\ UNCHANGED <<ppKind, ppMaxThreads, ppMaxJobs, ppNumJobs, ppPc, ppId, ppJob,
                   ppScheduled, ppQueue, ppRuns, ppSunk, ppSourceCalls, ppLive>>
    /\ UNCHANGED exceptPipeline

\* ThreadJobExecutor::waitAllCompleted, one turn of
\* "while (mData->scheduled.size() > 0)", and the return of pipeline.
ThreadPipelineWait ==
    /\ ppKind = "thread"
    /\ ppPc = "wait"
    /\ IF ppScheduled = <<>>
       THEN /\ ppPc' = "returned"
            /\ UNCHANGED <<ppScheduled, ppSunk, ppLive>>
       ELSE /\ futureReady(ppDone, Head(ppScheduled))
            /\ ppSunk' = Append(ppSunk, [job |-> Head(ppScheduled), thread |-> "main"])
            /\ ppScheduled' = Tail(ppScheduled)
            /\ ppLive' = ppLive \ {Head(ppScheduled)}
            /\ UNCHANGED ppPc
    /\ UNCHANGED <<ppKind, ppMaxThreads, ppMaxJobs, ppNumJobs, ppId, ppJob, ppQueue,
                   ppRunning, ppDone, ppRuns, ppSourceCalls>>
    /\ UNCHANGED exceptPipeline

NextPipeline ==
    \/ PipelineCall
    \/ SerialPipelineStep
    \/ ThreadPipelineSource
    \/ WorkerStart
    \/ WorkerFinish
    \/ ThreadPipelineWait

SpecPipeline == InitPipeline /\ [][NextPipeline]_vars

\* C19: with maxJobs > 0 at most maxJobs job instances exist at any time, and
\* source is not asked for another job while maxJobs of the jobs it produced
\* are still in existence (not yet passed to sink and released).
C19_AtMostMaxJobs ==
    ppMaxJobs > 0 =>
        /\ Cardinality(ppLive) <= ppMaxJobs
        /\ \A c \in DOMAIN ppSourceCalls :
              Cardinality(ppSourceCalls[c].live) < ppMaxJobs


\* The jobs source has produced so far.
PpProduced == {source(ppSourceCalls[c].id, ppNumJobs) : c \in DOMAIN ppSourceCalls} \ {0}

\* How often a job has been passed to sink.
PpSinkCount(job) == Cardinality({i \in DOMAIN ppSunk : ppSunk[i].job = job})

\* source is called with 0, 1, 2, ... and no more once it has returned nullptr
SourceCounts ==
    /\ \A c \in DOMAIN ppSourceCalls : ppSourceCalls[c].id = c - 1
    /\ \A c \in DOMAIN ppSourceCalls :
          source(ppSourceCalls[c].id, ppNumJobs) = 0 => c = Len(ppSourceCalls)

\* no job runs twice or is passed to sink twice, and a job passed to sink has
\* finished its one run
RunOnceSinkOnce ==
    /\ \A j \in DOMAIN ppRuns : ppRuns[j] <= 1
    /\ \A j \in DOMAIN ppRuns : PpSinkCount(j) <= 1
    /\ \A i \in DOMAIN ppSunk :
          /\ ppSunk[i].job \in PpProduced
          /\ ppSunk[i].job \in ppDone
          /\ ppRuns[ppSunk[i].job] = 1

\* source and sink run on the thread that called pipeline
OnCallingThread ==
    /\ \A c \in DOMAIN ppSourceCalls : ppSourceCalls[c].thread = "main"
    /\ \A i \in DOMAIN ppSunk : ppSunk[i].thread = "main"

\* when pipeline has returned, source has returned nullptr, every job it
\* produced has run once and has been passed to sink once, and nothing is
\* scheduled, queued or running
ReturnedComplete ==
    ppPc = "returned" =>
        /\ ppSourceCalls # <<>>
        /\ source(ppSourceCalls[Len(ppSourceCalls)].id, ppNumJobs) = 0
        /\ PpProduced = 1..ppNumJobs
        /\ \A j \in PpProduced : ppRuns[j] = 1 /\ PpSinkCount(j) = 1
        /\ ppScheduled = <<>>
        /\ ppQueue = <<>>
        /\ \A t \in DOMAIN ppRunning : ppRunning[t] = 0

\* C20: pipeline calls source with the counter values 0, 1, 2, ... until it
\* returns nullptr; every job produced is run exactly once and passed to sink
\* exactly once, only after its run has finished; source and sink are invoked
\* only on the calling thread; and pipeline returns only after every produced
\* job has been passed to sink, with no scheduled job left.
C20_PipelineRunsAndSinksAll ==
    /\ SourceCounts
    /\ RunOnceSinkOnce
    /\ OnCallingThread
    /\ ReturnedComplete

\* The thread pipeline has returned after three jobs ran on two workers.
C20_Witness ==
    /\ ppKind = "thread"
    /\ ppMaxThreads = 2
    /\ ppPc = "returned"
    /\ Len(ppSunk) = 3
    /\ Len(ppSourceCalls) = 4


(***************************************************************************)
(* Further properties of the smoother (specification Spec).                *)
(***************************************************************************)
\* A cached ensemble Ej multiplied by the transform(s) of the current step,
\* each damped once by the forgetting factor.
DampedOnce(Ej) == smootherUpdate(Ej, FALSE, [upX |-> upX, locX |-> locX]).Ej

\* The records (1-based positions in ksSteps) the backward pass of the next
\* endAnalysis visits.
LagWindow == {j \in DOMAIN ksSteps : j > Len(ksSteps) - lag}

WindowHandles ==
    [i \in 1..Min(lag, Len(ksSteps)) |-> ksSteps[Len(ksSteps) - i + 1].E]

\* endAnalysis reads exactly the records of the lag window, each once and
\* each still in the cache.
ReadsLagWindow ==
    /\ lastCall'.gets = WindowHandles
    /\ \A i \in DOMAIN lastCall'.gets : lastCall'.gets[i] \in DOMAIN entries

\* The ensemble of the record with handle h after the call: as it is kept in
\* the cache or, in global mode, as it was reported to the callback.
EnsembleAfter(h) ==
    IF h \in DOMAIN entries' THEN entries'[h] ELSE results'[Len(results')].E

\* every record of the window has been multiplied once by the transform of the
\* current step, and is unchanged when the step assimilated no observations
MultipliedOnce ==
    \A j \in LagWindow :
        (ksSteps[j].E \in DOMAIN entries
            /\ (ksSteps[j].E \in DOMAIN entries' \/ (mOnResultFn /\ ~isLocalized)))
            => /\ EnsembleAfter(ksSteps[j].E) = DampedOnce(entries[ksSteps[j].E])
               /\ ~upHaveAssimilatedObs
                    => EnsembleAfter(ksSteps[j].E) = entries[ksSteps[j].E]

\* a record older than the window is not touched
OlderUntouched ==
    \A h \in DOMAIN entries :
        (\A j \in LagWindow : ksSteps[j].E # h) => (h \in DOMAIN entries' /\ entries'[h] = entries[h])

EarlierUpdates(i, d) ==
    {e \in DOMAIN xLog : xLog[e].d = d /\ xLog[e].call < xLog[i].call}

\* The latest of them.
LastEarlierUpdate(i, d) ==
    CHOOSE e \in EarlierUpdates(i, d) : \A e2 \in EarlierUpdates(i, d) : e2 <= e

\* C23: in localized mode, whenever processGlobalEnsemble is called during an
\* assimilate call, the global ensemble it receives holds every local update
\* made by the earlier assimilate calls of the same analysis step.
C23_GlobalEnsembleUpToDate ==
    isLocalized =>
        \A i \in DOMAIN xLog :
            \A d \in 0..(locNumDomains - 1) :
                EarlierUpdates(i, d) # {}
                    => getLocal(locSSP, d, xLog[i].Eg) = xLog[LastEarlierUpdate(i, d)].Ea

\* A second assimilate call of a step has handed on a global ensemble that
\* differs from the forecast in the rows of a domain updated by the first.
C23_Witness ==
    /\ isLocalized
    /\ \E i \in DOMAIN xLog :
        \E d \in 0..(locNumDomains - 1) :
            /\ getLocalSize(locSSP, d) > 0
            /\ EarlierUpdates(i, d) # {}
            /\ xLog[LastEarlierUpdate(i, d)].Ea # xLog[LastEarlierUpdate(i, d)].E
            /\ getLocal(locSSP, d, xLog[i].Eg) # getLocal(locSSP, d, Forecast(upK))


\* C24: within one localized assimilate call, the assimilateOne executions for
\* two different domains write no common variable.
C24_DomainWritesDisjoint ==
    isLocalized =>
        \A i, j \in DOMAIN xLog :
            (xLog[i].call = xLog[j].call /\ xLog[i].d # xLog[j].d)
                => assimilateOneWrites(xLog[i].d) \cap assimilateOneWrites(xLog[j].d) = {}


(***************************************************************************)
(* localize() on its own, over every partitioning of up to                 *)
(* MaxLayoutDomains domains, empty, disjoint or overlapping.               *)
(***************************************************************************)
\* Largest number of local domains of a partitioner.
MaxLayoutDomains == 4

\* The rows a local domain may hold.
LayoutDomains == {<<>>, <<1>>, <<2>>, <<1, 2>>}
LayoutPartitioners ==
    UNION {[1..k -> LayoutDomains] : k \in 1..MaxLayoutDomains}

InitLocalize ==
    /\ SmootherInit
    /\ variant = "EnKS"
    /\ lag = 1
    /\ GridUnused
    /\ CacheUnused
    /\ KalmanUnused
    /\ CovarianceUnused
    /\ ObsManagerUnused
    /\ PipelineUnused

LocalizeLayout == \E ssp \in LayoutPartitioners : LocalizeWith(ssp)

NextLocalize == LocalizeLayout

SpecLocalize == InitLocalize /\ [][NextLocalize]_vars

\* The non-empty local domains.
NonemptyDomains == {d \in 0..(locNumDomains - 1) : locStateLimits[d + 1][2] > 0}
\* The rows of the augmented buffer of domain d, and the rows of its slot in
\* the stacked transform array as assimilate() addresses it (0-based).
EaugRows(d) == locStateLimits[d + 1][1]..(locStateLimits[d + 1][1] + locStateLimits[d + 1][2] - 1)
XSlotRows(d) == locXLimits[d + 1]..(locXLimits[d + 1] + N - 1)
\* The slot the backward recursion addresses for domain d.
RecursionSlot(d) ==
    LET calls == foreachNonemptyDomain
    IN  (CHOOSE c \in DOMAIN calls : calls[c].d = d) - 1

\* C25: after localize() the index layout is consistent: the row ranges of
\* distinct non-empty domains in the augmented buffer are disjoint and inside
\* [0, sum of n_d), their slots in the stacked transform array are disjoint
\* and inside [0, D*N), and assimilate and the backward recursion address the
\* same slot for every non-empty domain.
C25_LayoutConsistent ==
    isLocalized =>
        /\ \A d \in NonemptyDomains :
              /\ EaugRows(d) \subseteq 0..(locTotalStateSize - 1)
              /\ XSlotRows(d) \subseteq 0..(locNumNonemptyDomains * N - 1)
              /\ locXLimits[d + 1] = foreachNonemptyDomain[RecursionSlot(d) + 1].i * N
        /\ \A d, e \in NonemptyDomains :
              d # e => /\ EaugRows(d) \cap EaugRows(e) = {}
                       /\ XSlotRows(d) \cap XSlotRows(e) = {}
        /\ locNumNonemptyDomains = Cardinality(NonemptyDomains)
        /\ Len(locEaug) = locTotalStateSize
        /\ Len(locX) = locNumNonemptyDomains * N

\* Four domains, the first empty, the others non-empty and overlapping.
C25_Witness ==
    /\ isLocalized
    /\ locNumDomains = 4
    /\ locNumNonemptyDomains = 3
    /\ locStateLimits[1][2] = 0
    /\ locTotalStateSize > n


\* The number of live cache entries (all of them are put by the smoother).
LiveEntries == Cardinality(DOMAIN entries)

SmootherFlushed ==
    lag >= 1 /\ ksSteps # <<>> /\ ksSteps[Len(ksSteps)].E \notin DOMAIN entries

\* an endSmoother right after an endSmoother reports nothing and does not fail
SecondEndSmootherIdle ==
    (lag >= 1 /\ Returned("endSmoother") /\ lastCall'.op = "endSmoother")
        => (lastCall'.out = "ok" /\ results' = results)

\* an analysis step after endSmoother passes no removed handle to the cache
NoStaleHandleAfterFlush ==
    (SmootherFlushed /\ lastCall'.op = "endAnalysis")
        => \A i \in DOMAIN lastCall'.gets : lastCall'.gets[i] \in DOMAIN entries

\* C27: with lag >= 1 endSmoother leaves no pending step records: an
\* endSmoother called again right afterwards emits nothing and does not fail,
\* and a beginAnalysis ... endAnalysis step run after endSmoother never calls
\* get or remove on a cache handle that has been removed.
C27_EndSmootherLeavesIdle ==
    [][SecondEndSmootherIdle /\ NoStaleHandleAfterFlush]_vars


\* endAnalysis leaves the analysis ensemble of its step in the caller's buffer
BufferAfterEndAnalysis ==
    (lastCall'.op = "endAnalysis" /\ lastCall'.out = "ok") => upE' = AnalysisEnsemble

\* endSmoother leaves the buffer of the most recent step as endAnalysis left it
BufferAfterEndSmoother ==
    (nSteps >= 1 /\ lastCall'.op = "endSmoother" /\ lastCall'.out = "ok") => upE' = upE

\* C28: whenever endAnalysis or endSmoother returns, in global and in
\* localized mode, the ensemble buffer passed to the most recent beginAnalysis
\* holds that step's analysis ensemble, not an older, lagged result.
C28_CallerBufferKeepsAnalysis ==
    [][BufferAfterEndAnalysis /\ BufferAfterEndSmoother]_vars


\* C29: with lag >= 1 and a result callback set, beginSmoother(E0, k0)
\* followed directly by endSmoother invokes the callback exactly once, with
\* (E0, k0), and completes without failure, in global and in localized mode.
C29_FlushRightAfterBegin ==
    [][ (lag >= 1 /\ mOnResultFn /\ Returned("beginSmoother")
                  /\ lastCall'.op = "endSmoother")
            => /\ lastCall'.out = "ok"
               /\ results' = Append(results, [k |-> ksSteps[1].k,
                                              E |-> Forecast(ksSteps[1].k)])
      ]_vars


(***************************************************************************)
(* GridDomain::getCoords on a dense grid.                                  *)
(***************************************************************************)
\* mExtent.min() and mCellSize of the grid, per dimension.
GridExtentMin == <<1, 2>>
GridCellSize == <<2, 3>>

\* GridDomain::cellCoord(cellIndex, out): the coordinate written to out.
cellCoord(cellIndex, shape) ==
    IF Len(shape) = 1
    THEN <<GridExtentMin[1] + GridCellSize[1] * cellIndex>>
    ELSE LET xi == cellIndex \div shape[1]
             yi == cellIndex % shape[1]
         IN  <<GridExtentMin[1] + GridCellSize[1] * xi,
               GridExtentMin[2] + GridCellSize[2] * yi>>

\* Block(Zero(dim), mShape): the block of all cells.
wholeGrid(shape) == [min |-> [k \in DOMAIN shape |-> 0], max |-> shape]

\* The state elements (0-based) of the ranges forEachBlockStateRange passes.
rangeElements(ranges) == UNION {ranges[t][1]..(ranges[t][2] - 1) : t \in DOMAIN ranges}

\* GridDomain::getCoords(out), dense grid: column i of out (entry i + 1 here)
\* for every state element i of the ranges; the other columns stay as they are.
GridDomain_getCoords(shape, numVarsPerCell, out) ==
    LET elems == rangeElements(forEachBlockStateRange(wholeGrid(shape), numVarsPerCell, shape))
    IN  [c \in DOMAIN out |->
            IF (c - 1) \in elems THEN cellCoord((c - 1) \div numVarsPerCell, shape)
            ELSE out[c]]

\* GridDomain::getIndices(block, out), dense grid, as a set.
getIndices(block, numVarsPerCell, shape) ==
    rangeElements(forEachBlockStateRange(block, numVarsPerCell, shape))

InitCoords ==
    /\ SmootherInit
    /\ variant = "EnKS"
    /\ lag = 0
    /\ GridInit
    /\ CacheUnused
    /\ KalmanUnused
    /\ CovarianceUnused
    /\ ObsManagerUnused
    /\ PipelineUnused

\* getCoords(out) with a zero array of coordDim() rows and size() columns.
GridGetCoords ==
    /\ gCoords = <<>>
    /\ gCoords' = GridDomain_getCoords(gShape, gNumVarsPerCell,
                      [c \in 1..GridDomain_size(gShape, gNumVarsPerCell) |->
                          [k \in DOMAIN gShape |-> 0]])
    /\ UNCHANGED <<gShape, gNumVarsPerCell, gBlockSize, gDomains, gXg, gLocals, gXout,
                   gFetched, gPut>>
    /\ UNCHANGED exceptGrid

NextCoords == GridGetCoords

SpecCoords == InitCoords /\ [][NextCoords]_vars

\* The coordinate of the grid cell (x, y).
CoordOfCell(x, y) ==
    <<GridExtentMin[1] + GridCellSize[1] * x, GridExtentMin[2] + GridCellSize[2] * y>>

\* C30: for a dense 2-D grid of any shape, the coordinate getCoords reports
\* for state element i is that of the grid cell (x, y) to which getIndices,
\* getSubset and putSubset assign element i.
C30_CoordsMatchLayout ==
    (Len(gShape) = 2 /\ gCoords # <<>>)
        => \A x \in 0..(gShape[1] - 1), y \in 0..(gShape[2] - 1) :
              \A i \in getIndices([min |-> <<x, y>>, max |-> <<x + 1, y + 1>>],
                                  gNumVarsPerCell, gShape) :
                  gCoords[i + 1] = CoordOfCell(x, y)

=============================================================================
